---------------------------- MODULE Spec2Model ----------------------------
(***************************************************************************)
(* A model of the geoidentix attendance backend: the token codec           *)
(* (utils/jwt.ts), the refresh-session rotation of TenantService, the      *)
(* geo-fence evaluator (utils/geoLocation.ts) and the two-phase check-in   *)
(* protocol of AttendanceService.                                          *)
(*                                                                         *)
(* Handlers are split at their awaits: every database call is one atomic   *)
(* step, so that requests interleave exactly where the Node event loop     *)
(* lets them.  A database call may throw (connection loss, timeout); that  *)
(* is the step's `fault` input.                                            *)
(*                                                                         *)
(* Time is a clock of abstract ticks.  Coordinates are integers in units   *)
(* of 0.0001 degree and distances integers in metres.                      *)
(***************************************************************************)
EXTENDS Naturals, Integers, FiniteSets, Sequences, TLC

VARIABLES
    now,            \* the wall clock, new Date(), in ticks
    secrets,        \* config.jwt.{access,refresh,location}Secret
    tenants,        \* table "tenants"
    employees,      \* table "employees"
    attendances,    \* table "attendances"
    refreshTokens,  \* table "refresh_tokens"
    nextId,         \* source of fresh uuids (row ids, crypto.randomUUID())
    issued,         \* the tokens the server has handed to clients
    logins,         \* number of loginTenant calls made
    refreshes,      \* number of refreshAccessToken calls begun
    presented,      \* the tokens presented to refreshAccessToken so far
    lastLogin,      \* what the last loginTenant call returned
    rf,             \* the refreshAccessToken calls, one record per call
    locChecks,      \* number of checkEmployeeLocation calls made
    lastLoc,        \* what the last checkEmployeeLocation call returned
    checkIns,       \* number of checkIn calls begun
    ci,             \* the checkIn calls, one record per call
    updates,        \* number of updateTenant calls made
    lastUpdate,     \* the last updateTenant call: its input and outcome
    logouts,        \* number of logoutTenant calls made
    lastLogout,     \* the last logoutTenant call: its input and outcome
    registers,      \* number of registerTenant calls begun
    rg,             \* the registerTenant calls, one record per call
    empCalls,       \* number of updateEmployee / deleteEmployee calls begun
    em              \* the updateEmployee / deleteEmployee calls

vars == <<now, secrets, tenants, employees, attendances, refreshTokens,
          nextId, issued, logins, refreshes, presented, lastLogin, rf,
          locChecks, lastLoc, checkIns, ci, updates, lastUpdate, logouts,
          lastLogout, registers, rg, empCalls, em>>

authVars   == <<refreshTokens, logins, refreshes, presented, lastLogin, rf>>
attendVars == <<attendances, locChecks, lastLoc, checkIns, ci>>
planVars     == <<updates, lastUpdate>>
logoutVars   == <<logouts, lastLogout>>
registerVars == <<registers, rg>>
employeeVars == <<empCalls, em>>
adminVars    == <<planVars, logoutVars, registerVars, employeeVars>>

(***************************************************************************)
(* Bounds of the model.                                                    *)
(***************************************************************************)
MaxTime    == 2     \* the clock stops here
MaxLogins  == 1     \* loginTenant calls in one behaviour
MaxRefresh == 2     \* refreshAccessToken calls in one behaviour
MaxLocChecks == 1   \* checkEmployeeLocation calls in one behaviour
MaxCheckIns  == 2   \* checkIn calls in one behaviour
MaxUpdates   == 1   \* updateTenant calls in one behaviour
MaxLogouts   == 2   \* logoutTenant calls in one behaviour
MaxRegisters == 2   \* registerTenant calls in one behaviour
MaxEmpCalls  == 2   \* updateEmployee / deleteEmployee calls in one behaviour

RReq == {"r1", "r2"}           \* the refreshAccessToken calls in flight
CReq == {"c1", "c2"}           \* the checkIn calls in flight
GReq == {"g1", "g2"}           \* the registerTenant calls in flight
EReq == {"m1", "m2"}                 \* the updateEmployee / deleteEmployee calls

(***************************************************************************)
(* Configuration (config/index.ts).  validateConfig accepts every          *)
(* assignment of non-empty secrets, equal ones included.  Expiries are in  *)
(* ticks.                                                                  *)
(***************************************************************************)
Kinds   == {"access", "refresh", "location"}
Secrets == {"k1", "k2", "k3"}
ForgedKey == "k0"              \* a signing key the server does not hold

AccessExpiry   == 1
RefreshExpiry  == 1
LocationExpiry == 2

\* config.rekognition.similarityThreshold (percent) and
\* config.geoLocation.allowedCheckInRadius (metres).
SimilarityThreshold  == 85
AllowedCheckInRadius == 100

\* Ticks in a calendar day: today.setHours(0, 0, 0, 0) is the last multiple.
DayLen == 2

validateConfig(cfg) == \A k \in Kinds : cfg[k] # ""

None == [none |-> TRUE]

(***************************************************************************)
(* utils/jwt.ts.  A signed token is its payload, its exp claim and the key *)
(* of its HMAC signature.  jwt.verify(token, secret) accepts a token when  *)
(* the signature was made with `secret` and the clock is before exp; it    *)
(* returns the decoded claims: the fields of the payload that was signed   *)
(* together with the iat and exp claims jwt.sign added.                    *)
(***************************************************************************)
\* jwt.sign with expiresIn: the payload's own fields, iat and exp.
Claims(payload, expiresIn, t) ==
    [f \in DOMAIN payload \cup {"iat", "exp"} |->
        IF f = "iat" THEN t
        ELSE IF f = "exp" THEN t + expiresIn
        ELSE payload[f]]

\* A signer that keeps the registered claims and drops the payload.
jwtSign_RegisteredClaimsOnly(payload, secret, expiresIn, t) ==
    [payload |-> [iat |-> t, exp |-> t + expiresIn], key |-> secret,
     exp |-> t + expiresIn]

jwtSign(payload, secret, expiresIn, t) ==
    [payload |-> Claims(payload, expiresIn, t), key |-> secret,
     exp |-> t + expiresIn]

\* A verifier that checks the signature and never the exp claim.
jwtVerify_IgnoringExp(token, secret, t) ==
    IF token.key = secret
    THEN [ok |-> TRUE, payload |-> token.payload]
    ELSE [ok |-> FALSE, payload |-> None]

\* A verifier that accepts a token at the time of its issue only.
jwtVerify_OnlyWhenIssued(token, secret, t) ==
    IF token.key = secret /\ t = token.exp - LocationExpiry
    THEN [ok |-> TRUE, payload |-> token.payload]
    ELSE [ok |-> FALSE, payload |-> None]

jwtVerify(token, secret, t) ==
    IF token.key = secret /\ t < token.exp
    THEN [ok |-> TRUE, payload |-> token.payload]
    ELSE [ok |-> FALSE, payload |-> None]

generateAccessToken(payload, cfg, t) ==
    jwtSign(payload, cfg["access"], AccessExpiry, t)

generateRefreshToken(payload, cfg, t) ==
    jwtSign(payload, cfg["refresh"], RefreshExpiry, t)

generateLocationToken(payload, cfg, t) ==
    jwtSign(payload, cfg["location"], LocationExpiry, t)

\* verify*Token: the payload, or a plain Error thrown in place of
\* jsonwebtoken's.
verifyAccessToken(token, cfg, t) == jwtVerify(token, cfg["access"], t)

verifyRefreshToken(token, cfg, t) == jwtVerify(token, cfg["refresh"], t)

\* A verifier that reads the payload without checking signature or expiry.
verifyLocationToken_Unsigned(token, cfg, t) ==
    [ok |-> TRUE, payload |-> token.payload]

verifyLocationToken(token, cfg, t) == jwtVerify(token, cfg["location"], t)

hashToken(token) == <<"sha256", token>>

getTokenExpiry(expiry, t) == t + expiry

\* The kind a token was issued for, read off the fields of its payload.
KindOf(token) ==
    IF "username" \in DOMAIN token.payload THEN "access"
    ELSE IF "tokenId" \in DOMAIN token.payload THEN "refresh"
    ELSE "location"

(***************************************************************************)
(* The database as the handlers find it: two registered tenants, one on    *)
(* each plan, and their employees.  hashPassword is opaque.                *)
(***************************************************************************)
hashPassword(p) == <<"bcrypt", p>>

\* A comparison that accepts every password.
comparePassword_Always(p, hash) == TRUE

comparePassword(p, hash) == hashPassword(p) = hash

OfficeLat == 129716
OfficeLon == 775946

SeedTenants ==
    { [id |-> "t1", tenantName |-> "Acme", gst |-> "g1", username |-> "u1",
       password |-> hashPassword("pw1"), planType |-> "FREE",
       address |-> "a1", latitude |-> OfficeLat, longitude |-> OfficeLon],
      [id |-> "t2", tenantName |-> "Bolt", gst |-> "g2", username |-> "u2",
       password |-> hashPassword("pw2"), planType |-> "PAID",
       address |-> "a2", latitude |-> OfficeLat, longitude |-> OfficeLon] }

SeedEmployees ==
    { [id |-> "e1", tenantId |-> "t1", photoUrl |-> "ref1"],
      [id |-> "e2", tenantId |-> "t1", photoUrl |-> "ref2"],
      [id |-> "e3", tenantId |-> "t2", photoUrl |-> "ref3"] }

Usernames == {"u1", "u2", "u9"}
Passwords == {"pw1", "pw2"}

\* prisma.<table>.findUnique / findFirst: the matching row, or null.
FirstOf(matches) ==
    IF matches = {} THEN None ELSE CHOOSE row \in matches : TRUE

\* A lookup that answers with the row as it was first stored.
FindTenantById_AsSeeded(rows, id) ==
    FirstOf({row \in SeedTenants : row.id = id})

FindTenantById(rows, id) == FirstOf({row \in rows : row.id = id})

FindTenantByUsername(rows, username) ==
    FirstOf({row \in rows : row.username = username})

FindEmployeeById(rows, id) == FirstOf({row \in rows : row.id = id})

\* middlewares/error.middleware.ts: an AppError carries its status code; any
\* other Error (jsonwebtoken's, Prisma's, the oracle's) carries none.
AppError(message, statusCode) ==
    [app |-> TRUE, status |-> statusCode, message |-> message]

PlainError(message) == [app |-> FALSE, status |-> 0, message |-> message]

\* What a database call throws when it fails.
PrismaError == PlainError("PrismaClientKnownRequestError")

\* The handlers' catch block:
\*   if (error instanceof AppError) throw error;
\*   throw new AppError(generic, 500);
Rethrow(error, generic) ==
    IF error.app THEN error ELSE AppError(generic, 500)

(***************************************************************************)
(* TenantService.loginTenant, as one step.                                 *)
(***************************************************************************)
CreateRefreshRow(rows, id, tenantId, token, t) ==
    rows \cup { [id |-> id, tenantId |-> tenantId,
                 tokenHash |-> hashToken(token),
                 expiresAt |-> getTokenExpiry(RefreshExpiry, t),
                 isRevoked |-> FALSE] }

loginTenant(username, password, fault) ==
    LET tenant == FindTenantByUsername(tenants, username)
        accessToken == generateAccessToken(
            [tenantId |-> tenant.id, username |-> tenant.username,
             planType |-> tenant.planType], secrets, now)
        refreshToken == generateRefreshToken(
            [tenantId |-> tenant.id, tokenId |-> nextId], secrets, now)
    IN  /\ logins < MaxLogins
        /\ logins' = logins + 1
        /\ IF tenant = None \/ ~comparePassword(password, tenant.password)
           THEN /\ lastLogin' = Rethrow(
                    AppError("Invalid username or password", 401), "Login failed")
                /\ UNCHANGED <<refreshTokens, nextId, issued>>
           ELSE IF fault
           THEN /\ lastLogin' = Rethrow(PrismaError, "Login failed")
                /\ UNCHANGED <<refreshTokens, nextId, issued>>
           ELSE /\ refreshTokens' = CreateRefreshRow(refreshTokens, nextId + 1,
                                        tenant.id, refreshToken, now)
                /\ nextId' = nextId + 2
                /\ issued' = issued \cup {accessToken, refreshToken}
                /\ lastLogin' = [app |-> TRUE, status |-> 200,
                                 message |-> "Login successful",
                                 tenantId |-> tenant.id,
                                 accessToken |-> accessToken,
                                 refreshToken |-> refreshToken]
        /\ UNCHANGED <<now, secrets, tenants, employees, refreshes, presented,
                       rf, attendVars, adminVars>>

(***************************************************************************)
(* TenantService.refreshAccessToken.  One record per call:                 *)
(*   pc      idle, verified (the token verified; findUnique pending),      *)
(*           read (the stored row passed the checks; update pending),      *)
(*           revoked (the old row is revoked; create pending),             *)
(*           done (returned the new pair), failed (threw)                  *)
(*   token, payload, storedToken   the handler's locals                    *)
(*   result  the LoginResponse returned or the AppError thrown             *)
(*   fault   whether a database call of this call threw                    *)
(*   after   the calls that had returned when this one began               *)
(*   n       the number of this call among the calls of its handler        *)
(*   first   whether no earlier call presented this call's token           *)
(*   before  the refresh_tokens table when this call began                 *)
(* A call that has returned leaves its record behind until its slot takes  *)
(* the next call.                                                          *)
(***************************************************************************)
IdleCall ==
    [pc |-> "idle", token |-> None, payload |-> None, storedToken |-> None,
     result |-> None, fault |-> FALSE, n |-> 0, after |-> {},
     first |-> FALSE, before |-> {}]

Returned(calls) == {q \in DOMAIN calls : calls[q].pc \in {"done", "failed"}}

Throw(call, error, generic) ==
    [call EXCEPT !.pc = "failed", !.result = Rethrow(error, generic)]

\* A token a client may make up: well-formed, signed with a key of its own.
ForgedRefreshToken ==
    [payload |-> [tenantId |-> "t1", tokenId |-> 0], key |-> ForgedKey,
     exp |-> MaxTime + RefreshExpiry + 1]

\* const payload = verifyRefreshToken(refreshToken);
RefreshBegin(r, token) ==
    LET v == verifyRefreshToken(token, secrets, now)
        call == [IdleCall EXCEPT !.token = token,
                                 !.n = refreshes + 1,
                                 !.after = Returned(rf) \ {r},
                                 !.first = token \notin presented,
                                 !.before = refreshTokens]
    IN  /\ rf[r].pc \in {"idle", "done", "failed"}
        /\ refreshes < MaxRefresh
        /\ refreshes' = refreshes + 1
        /\ presented' = presented \cup {token}
        /\ rf' = [q \in RReq |->
                IF q # r THEN [rf[q] EXCEPT !.after = @ \ {r}]
                ELSE IF v.ok
                THEN [call EXCEPT !.pc = "verified", !.payload = v.payload]
                ELSE Throw(call, PlainError("Invalid or expired refresh token"),
                           "Failed to refresh token")]
        /\ UNCHANGED <<now, secrets, tenants, employees, refreshTokens, nextId,
                       issued, logins, lastLogin, attendVars, adminVars>>

\* The checks on the row findUnique returned (null when there is none).
ValidateStoredToken(storedToken, payload, t) ==
    IF storedToken = None \/ storedToken.isRevoked
    THEN AppError("Invalid or revoked refresh token", 401)
    ELSE IF storedToken.expiresAt < t
    THEN AppError("Refresh token expired", 401)
    ELSE IF storedToken.tenantId # payload.tenantId
    THEN AppError("Token tenant mismatch", 401)
    ELSE None

\* prisma.refreshToken.findUnique({ where: { tokenHash }, include: { tenant } })
FindStoredToken(rows, token) ==
    LET row == FirstOf({x \in rows : x.tokenHash = hashToken(token)})
    IN  IF row = None THEN None
        ELSE [id |-> row.id, tenantId |-> row.tenantId,
              tokenHash |-> row.tokenHash, expiresAt |-> row.expiresAt,
              isRevoked |-> row.isRevoked,
              tenant |-> FindTenantById(tenants, row.tenantId)]

RefreshRead(r, fault) ==
    LET storedToken == FindStoredToken(refreshTokens, rf[r].token)
        error == ValidateStoredToken(storedToken, rf[r].payload, now)
    IN  /\ rf[r].pc = "verified"
        /\ rf' = [rf EXCEPT ![r] =
                IF fault
                THEN Throw([@ EXCEPT !.fault = TRUE], PrismaError,
                           "Failed to refresh token")
                ELSE IF error # None
                THEN Throw(@, error, "Failed to refresh token")
                ELSE [@ EXCEPT !.pc = "read", !.storedToken = storedToken]]
        /\ UNCHANGED <<now, secrets, tenants, employees, refreshTokens, nextId,
                       issued, logins, refreshes, presented, lastLogin,
                       attendVars, adminVars>>

\* A rotation that forgets to revoke the presented row.
RevokeRow_Skipped(rows, id) == rows

\* prisma.refreshToken.update({ where: { id }, data: { isRevoked: true } })
RevokeRow(rows, id) ==
    {IF row.id = id THEN [row EXCEPT !.isRevoked = TRUE] ELSE row : row \in rows}

RefreshRevoke(r, fault) ==
    /\ rf[r].pc = "read"
    /\ IF fault
       THEN /\ rf' = [rf EXCEPT ![r] = Throw([@ EXCEPT !.fault = TRUE],
                            PrismaError, "Failed to refresh token")]
            /\ UNCHANGED refreshTokens
       ELSE /\ refreshTokens' = RevokeRow(refreshTokens, rf[r].storedToken.id)
            /\ rf' = [rf EXCEPT ![r].pc = "revoked"]
    /\ UNCHANGED <<now, secrets, tenants, employees, nextId, issued, logins,
                   refreshes, presented, lastLogin, attendVars, adminVars>>

\* The new pair is signed, then prisma.refreshToken.create stores its hash.
RefreshCreate(r, fault) ==
    LET tenant == rf[r].storedToken.tenant
        accessToken == generateAccessToken(
            [tenantId |-> tenant.id, username |-> tenant.username,
             planType |-> tenant.planType], secrets, now)
        newRefreshToken == generateRefreshToken(
            [tenantId |-> tenant.id, tokenId |-> nextId], secrets, now)
    IN  /\ rf[r].pc = "revoked"
        /\ IF fault
           THEN /\ rf' = [rf EXCEPT ![r] = Throw([@ EXCEPT !.fault = TRUE],
                                PrismaError, "Failed to refresh token")]
                /\ UNCHANGED <<refreshTokens, nextId, issued>>
           ELSE /\ refreshTokens' = CreateRefreshRow(refreshTokens, nextId + 1,
                                        tenant.id, newRefreshToken, now)
                /\ nextId' = nextId + 2
                /\ issued' = issued \cup {accessToken, newRefreshToken}
                /\ rf' = [rf EXCEPT ![r].pc = "done", ![r].result =
                            [app |-> TRUE, status |-> 200,
                             message |-> "Token refreshed successfully",
                             tenantId |-> tenant.id,
                             accessToken |-> accessToken,
                             refreshToken |-> newRefreshToken]]
        /\ UNCHANGED <<now, secrets, tenants, employees, logins, refreshes,
                       presented, lastLogin, attendVars, adminVars>>

Tick ==
    /\ now < MaxTime
    /\ now' = now + 1
    /\ UNCHANGED <<secrets, tenants, employees, nextId, issued, authVars, adminVars,
                   attendVars>>

(***************************************************************************)
(* utils/geoLocation.ts.  Coordinates are in units of 0.0001 degree.  On a *)
(* meridian the haversine terms reduce to c = |lat2 - lat1| in radians, so *)
(* the distance is R * pi / 180 = 111195 m per degree, 11.12 m per unit.   *)
(* The points the model measures lie on the meridian of the office, or    *)
(* farther from it in latitude alone than the radius.                      *)
(***************************************************************************)
Abs(x) == IF x < 0 THEN 0 - x ELSE x

calculateDistance(lat1, lon1, lat2, lon2) == (Abs(lat2 - lat1) * 1112) \div 100

\* A geo-fence that takes every point to be inside.
isWithinRadius_Everywhere(checkLat, checkLon, centerLat, centerLon, radiusMeters) ==
    TRUE

\* A geo-fence that leaves its own boundary outside.
isWithinRadius_Exclusive(checkLat, checkLon, centerLat, centerLon, radiusMeters) ==
    calculateDistance(checkLat, checkLon, centerLat, centerLon) < radiusMeters

isWithinRadius(checkLat, checkLon, centerLat, centerLon, radiusMeters) ==
    calculateDistance(checkLat, checkLon, centerLat, centerLon) <= radiusMeters

\* A range check that excludes the two poles.
isValidLatitude_Exclusive(lat) == lat > 0 - 900000 /\ lat < 900000

isValidLatitude(lat) == lat >= 0 - 900000 /\ lat <= 900000

isValidLongitude(lon) == lon >= 0 - 1800000 /\ lon <= 1800000

validateCoordinates(lat, lon) ==
    IF ~isValidLatitude(lat)
    THEN [isValid |-> FALSE,
          error |-> "Invalid latitude. Must be between -90 and 90"]
    ELSE IF ~isValidLongitude(lon)
    THEN [isValid |-> FALSE,
          error |-> "Invalid longitude. Must be between -180 and 180"]
    ELSE [isValid |-> TRUE, error |-> ""]

\* The positions a client reports: at the office door, 55 m away, at the
\* radius (100 m, on either side of the office), just beyond it (111 m),
\* 1.5 km away, and one that is no latitude at all.
Latitudes ==
    {OfficeLat, OfficeLat + 5, OfficeLat + 9, OfficeLat - 9, OfficeLat + 10,
     OfficeLat + 135, 900001}
Longitudes == {OfficeLon}

(***************************************************************************)
(* utils/validators.ts and utils/rekognition.ts.  The Rekognition service  *)
(* is an oracle: it throws, finds no face match, or reports the similarity *)
(* of the best match.                                                      *)
(***************************************************************************)
isValidEmbedding(embedding) ==
    /\ Len(embedding) > 0
    /\ \A i \in 1..Len(embedding) : embedding[i] \in Int

Embeddings == {<<>>, <<12, 7>>}

RekognitionResponses ==
    {[error |-> TRUE, FaceMatches |-> <<>>],
     [error |-> FALSE, FaceMatches |-> <<>>],
     [error |-> FALSE, FaceMatches |-> <<80>>],
     [error |-> FALSE, FaceMatches |-> <<90>>]}

\* A comparison that passes whatever the service answers.
compareFaces_AnyFace(response) ==
    [isMatch |-> TRUE,
     similarity |-> IF Len(response.FaceMatches) > 0
                    THEN response.FaceMatches[1] ELSE 0]

\* The value compareFaces resolves to; it rejects when response.error.
compareFaces(response) ==
    IF Len(response.FaceMatches) > 0 /\ response.FaceMatches[1] # 0
    THEN [isMatch |-> response.FaceMatches[1] >= SimilarityThreshold,
          similarity |-> response.FaceMatches[1]]
    ELSE [isMatch |-> FALSE, similarity |-> 0]

(***************************************************************************)
(* AttendanceService.checkEmployeeLocation, as one step: it only reads the *)
(* database.  lastLoc holds the call's input and what it returned or       *)
(* threw.  `fault` names the database call that throws, if one does.       *)
(***************************************************************************)
EmployeeIds == {"e1", "e2", "e3", "e9"}

DbFaults == {"none", "employee", "tenant"}

LocationResult(input, fault) ==
    LET coordValidation == validateCoordinates(input.latitude, input.longitude)
        employee == FindEmployeeById(employees, input.employeeId)
        tenant == FindTenantById(tenants, employee.tenantId)
    IN  IF ~coordValidation.isValid
        THEN AppError(coordValidation.error, 400)
        ELSE IF fault = "employee"
        THEN AppError("Failed to fetch employee", 500)
        ELSE IF employee = None
        THEN AppError("Employee not found", 404)
        ELSE IF fault = "tenant"
        THEN Rethrow(PrismaError, "Failed to check location")
        ELSE IF tenant = None
        THEN AppError("Tenant not found", 404)
        ELSE IF isWithinRadius(input.latitude, input.longitude, tenant.latitude,
                               tenant.longitude, AllowedCheckInRadius)
        THEN [success |-> FALSE,
              message |-> "You are within the office premises. Please proceed with check-in."]
        ELSE [success |-> TRUE,
              tenantId |-> tenant.id,
              tenantName |-> tenant.tenantName,
              address |-> tenant.address,
              locationToken |-> generateLocationToken(
                  [tenantId |-> tenant.id, employeeId |-> employee.id,
                   latitude |-> input.latitude, longitude |-> input.longitude],
                  secrets, now),
              message |-> "Location verified. You are outside office premises."]

Issues(result) == "locationToken" \in DOMAIN result

checkEmployeeLocation(input, fault) ==
    LET result == LocationResult(input, fault)
    IN  /\ locChecks < MaxLocChecks
        /\ locChecks' = locChecks + 1
        /\ lastLoc' = [input |-> input, result |-> result]
        /\ issued' = IF Issues(result)
                     THEN issued \cup {result.locationToken} ELSE issued
        /\ UNCHANGED <<now, secrets, tenants, employees, attendances, nextId,
                       authVars, adminVars, checkIns, ci>>

(***************************************************************************)
(* AttendanceService.checkIn.  One record per call:                        *)
(*   pc      idle, employee (the token and the input passed the checks;    *)
(*           getEmployeeById pending), tenant (tenant.findUnique pending), *)
(*           faces (compareFaces pending), find (attendance.findFirst      *)
(*           pending), create (attendance.create pending),                 *)
(*           done (returned the Attendance), failed (threw)                *)
(*   input, locationPayload, employee, tenant, matchConfidence, today      *)
(*           the handler's locals                                          *)
(*   result  the Attendance returned or the AppError thrown                *)
(*   response   what the Rekognition service answered to this call         *)
(*   fault   whether a database or Rekognition call of this call threw     *)
(*   began   the clock when the call began                                 *)
(*   after   the calls that had returned when this one began               *)
(*   n       the number of this call among the calls of its handler        *)
(*   before  the attendances table when this call began                    *)
(***************************************************************************)
IdleCheckIn ==
    [pc |-> "idle", input |-> None, locationPayload |-> None,
     employee |-> None, tenant |-> None, response |-> None,
     matchConfidence |-> None, today |-> 0, result |-> None, fault |-> FALSE, began |-> 0, n |-> 0,
     after |-> {}, before |-> {}]

\* A token a client may make up: well-formed, signed with a key of its own.
ForgedLocationToken ==
    [payload |-> [tenantId |-> "t1", employeeId |-> "e1",
                  latitude |-> OfficeLat + 135, longitude |-> OfficeLon],
     key |-> ForgedKey, exp |-> MaxTime + LocationExpiry + 1]

\* today = new Date(); today.setHours(0, 0, 0, 0)
StartOfDay(t) == t - (t % DayLen)

\* A check-in that never matches the token's employee against the request.
EmployeeMatches_Skipped(locationPayload, input) == TRUE

\* locationPayload.employeeId !== input.employeeId, negated
EmployeeMatches(locationPayload, input) ==
    /\ "employeeId" \in DOMAIN locationPayload
    /\ locationPayload.employeeId = input.employeeId

\* employee.tenantId !== locationPayload.tenantId, negated
TenantMatches(employee, locationPayload) ==
    /\ "tenantId" \in DOMAIN locationPayload
    /\ employee.tenantId = locationPayload.tenantId

\* The synchronous head of checkIn, up to the first await.
CheckInBegin(c, input) ==
    LET v == verifyLocationToken(input.locationToken, secrets, now)
        call == [IdleCheckIn EXCEPT !.input = input,
                                    !.began = now,
                                    !.n = checkIns + 1,
                                    !.after = Returned(ci) \ {c},
                                    !.before = attendances]
    IN  /\ ci[c].pc \in {"idle", "done", "failed"}
        /\ checkIns < MaxCheckIns
        /\ checkIns' = checkIns + 1
        /\ ci' = [q \in CReq |->
                IF q # c THEN [ci[q] EXCEPT !.after = @ \ {c}]
                ELSE IF ~v.ok
                THEN Throw(call, AppError("Invalid or expired location token", 401),
                           "Failed to process check-in")
                ELSE IF ~EmployeeMatches(v.payload, input)
                THEN Throw(call,
                           AppError("Employee ID mismatch with location token", 403),
                           "Failed to process check-in")
                ELSE IF ~isValidEmbedding(input.embedding)
                THEN Throw(call, AppError("Invalid embedding format", 400),
                           "Failed to process check-in")
                ELSE [call EXCEPT !.pc = "employee",
                                  !.locationPayload = v.payload]]
        /\ UNCHANGED <<now, secrets, tenants, employees, attendances, nextId,
                       issued, authVars, adminVars, locChecks, lastLoc>>

\* const employee = await employeeService.getEmployeeById(input.employeeId)
CheckInEmployee(c, fault) ==
    LET employee == FindEmployeeById(employees, ci[c].input.employeeId)
    IN  /\ ci[c].pc = "employee"
        /\ ci' = [ci EXCEPT ![c] =
                IF fault
                THEN Throw([@ EXCEPT !.fault = TRUE],
                           AppError("Failed to fetch employee", 500),
                           "Failed to process check-in")
                ELSE IF employee = None
                THEN Throw(@, AppError("Employee not found", 404),
                           "Failed to process check-in")
                ELSE IF ~TenantMatches(employee, @.locationPayload)
                THEN Throw(@, AppError("Tenant mismatch", 403),
                           "Failed to process check-in")
                ELSE [@ EXCEPT !.pc = "tenant", !.employee = employee]]
        /\ UNCHANGED <<now, secrets, tenants, employees, attendances, nextId,
                       issued, authVars, adminVars, locChecks, lastLoc, checkIns>>

\* const tenant = await prisma.tenant.findUnique(...); a FREE tenant's call
\* goes on to take `today` and to start findFirst.
CheckInTenant(c, fault) ==
    LET tenant == FindTenantById(tenants, ci[c].employee.tenantId)
    IN  /\ ci[c].pc = "tenant"
        /\ ci' = [ci EXCEPT ![c] =
                IF fault
                THEN Throw([@ EXCEPT !.fault = TRUE], PrismaError,
                           "Failed to process check-in")
                ELSE IF tenant = None
                THEN Throw(@, AppError("Tenant not found", 404),
                           "Failed to process check-in")
                ELSE IF tenant.planType = "PAID"
                THEN [@ EXCEPT !.pc = "faces", !.tenant = tenant]
                ELSE [@ EXCEPT !.pc = "find", !.tenant = tenant,
                               !.today = StartOfDay(now)]]
        /\ UNCHANGED <<now, secrets, tenants, employees, attendances, nextId,
                       issued, authVars, adminVars, locChecks, lastLoc, checkIns>>

\* const comparisonResult = await compareFaces(employee.photoUrl,
\* input.photoUrl), in its own try block.
CheckInFaces(c, response) ==
    LET comparisonResult == compareFaces(response)
    IN  /\ ci[c].pc = "faces"
        /\ ci' = [ci EXCEPT ![c] =
                IF response.error
                THEN Throw([@ EXCEPT !.fault = TRUE, !.response = response],
                           PlainError("Failed to compare faces using AWS Rekognition"),
                           "Face verification failed. Please try again.")
                ELSE IF ~comparisonResult.isMatch
                THEN Throw([@ EXCEPT !.response = response],
                           AppError("Face verification failed. Please try again with a clear photo.", 400),
                           "Face verification failed. Please try again.")
                ELSE [@ EXCEPT !.pc = "find",
                               !.response = response,
                               !.matchConfidence =
                                   [value |-> comparisonResult.similarity],
                               !.today = StartOfDay(now)]]
        /\ UNCHANGED <<now, secrets, tenants, employees, attendances, nextId,
                       issued, authVars, adminVars, locChecks, lastLoc, checkIns>>

\* A check-in that never looks for today's row.
FindCheckInSince_Skipped(rows, employeeId, today) == None

\* A look-up that takes a row of any day for today's.
FindCheckInSince_AnyDay(rows, employeeId, today) ==
    FirstOf({row \in rows : row.employeeId = employeeId})

\* prisma.attendance.findFirst({ where: { employeeId,
\*                                        checkInTime: { gte: today } } })
FindCheckInSince(rows, employeeId, today) ==
    FirstOf({row \in rows :
                row.employeeId = employeeId /\ row.checkInTime >= today})

CheckInFind(c, fault) ==
    LET existingCheckIn == FindCheckInSince(attendances,
                               ci[c].input.employeeId, ci[c].today)
    IN  /\ ci[c].pc = "find"
        /\ ci' = [ci EXCEPT ![c] =
                IF fault
                THEN Throw([@ EXCEPT !.fault = TRUE], PrismaError,
                           "Failed to process check-in")
                ELSE IF existingCheckIn # None
                THEN Throw(@, AppError("Already checked in today", 409),
                           "Failed to process check-in")
                ELSE [@ EXCEPT !.pc = "create"]]
        /\ UNCHANGED <<now, secrets, tenants, employees, attendances, nextId,
                       issued, authVars, adminVars, locChecks, lastLoc, checkIns>>

\* An insert that reports the row and stores nothing.
InsertAttendance_Dropped(rows, attendance) == rows

\* INSERT INTO "attendances"
InsertAttendance(rows, attendance) == rows \cup {attendance}

\* prisma.attendance.create; checkInTime defaults to CURRENT_TIMESTAMP and
\* both foreign keys must still name a row.
CheckInCreate(c, fault) ==
    LET call == ci[c]
        attendance == [id |-> nextId,
                       tenantId |-> call.employee.tenantId,
                       employeeId |-> call.employee.id,
                       photoUrl |-> call.input.photoUrl,
                       embedding |-> call.input.embedding,
                       checkInTime |-> now,
                       matchConfidence |-> call.matchConfidence]
    IN  /\ call.pc = "create"
        /\ IF \/ fault
              \/ FindEmployeeById(employees, attendance.employeeId) = None
              \/ FindTenantById(tenants, attendance.tenantId) = None
           THEN /\ ci' = [ci EXCEPT ![c] = Throw([@ EXCEPT !.fault = TRUE],
                            PrismaError, "Failed to process check-in")]
                /\ UNCHANGED <<attendances, nextId>>
           ELSE /\ attendances' = InsertAttendance(attendances, attendance)
                /\ nextId' = nextId + 1
                /\ ci' = [ci EXCEPT ![c].pc = "done", ![c].result = attendance]
        /\ UNCHANGED <<now, secrets, tenants, employees, issued, authVars, adminVars,
                       locChecks, lastLoc, checkIns>>

(***************************************************************************)
(* TenantService.updateTenant: one prisma.tenant.update.  Every error, the *)
(* "record not found" of an unknown id included, leaves the handler as     *)
(* AppError("Failed to update tenant", 500).                               *)
(***************************************************************************)
\* const { password: _, ...tenantWithoutPassword } = tenant
WithoutPassword(row) == [f \in DOMAIN row \ {"password"} |-> row[f]]

ApplyUpdates(row, data) ==
    [f \in DOMAIN row |-> IF f \in DOMAIN data THEN data[f] ELSE row[f]]

updateTenant(tenantId, data, fault) ==
    LET tenant == FindTenantById(tenants, tenantId)
        failed == fault \/ tenant = None
    IN  /\ updates < MaxUpdates
        /\ updates' = updates + 1
        /\ tenants' = IF failed THEN tenants
                      ELSE (tenants \ {tenant}) \cup {ApplyUpdates(tenant, data)}
        /\ lastUpdate' =
              [tenantId |-> tenantId, data |-> data,
               result |-> IF failed THEN AppError("Failed to update tenant", 500)
                          ELSE WithoutPassword(ApplyUpdates(tenant, data))]
        /\ UNCHANGED <<now, secrets, employees, nextId, issued, authVars,
                       attendVars, logoutVars, registerVars, employeeVars>>

(***************************************************************************)
(* TenantService.logoutTenant: one prisma.refreshToken.updateMany.         *)
(* lastLogout holds the call's arguments, whether its database call threw, *)
(* what it returned or threw, and `served`, the arguments of the calls     *)
(* that have returned normally so far.                                     *)
(***************************************************************************)
Served == IF lastLogout = None THEN {} ELSE lastLogout.served

\* A logout that reports success without touching the table.
RevokeMany_Skipped(rows, tenantId, tokenHash) == rows

\* A logout that revokes the session of the token, whose ever it is.
RevokeMany_AnyTenant(rows, tenantId, tokenHash) ==
    {IF row.tokenHash = tokenHash
     THEN [row EXCEPT !.isRevoked = TRUE] ELSE row : row \in rows}

\* updateMany({ where: { tenantId, tokenHash }, data: { isRevoked: true } })
RevokeMany(rows, tenantId, tokenHash) ==
    {IF row.tenantId = tenantId /\ row.tokenHash = tokenHash
     THEN [row EXCEPT !.isRevoked = TRUE] ELSE row : row \in rows}

logoutTenant(tenantId, refreshToken, fault) ==
    /\ logouts < MaxLogouts
    /\ logouts' = logouts + 1
    /\ refreshTokens' = IF fault THEN refreshTokens
                        ELSE RevokeMany(refreshTokens, tenantId,
                                        hashToken(refreshToken))
    /\ lastLogout' =
          [tenantId |-> tenantId, refreshToken |-> refreshToken,
           fault |-> fault,
           result |-> IF fault
                      THEN Rethrow(PrismaError, "Failed to logout")
                      ELSE [app |-> TRUE, status |-> 200,
                            message |-> "Logged out successfully"],
           served |-> IF fault THEN Served
                      ELSE Served \cup {<<tenantId, refreshToken>>}]
    /\ UNCHANGED <<now, secrets, tenants, employees, nextId, issued, logins,
                   refreshes, presented, lastLogin, rf, attendVars, planVars,
                   registerVars, employeeVars>>

(***************************************************************************)
(* TenantService.registerTenant.  One record per call:                     *)
(*   pc      idle, username (findUnique by username pending), gst          *)
(*           (findUnique by gst pending), create (tenant.create pending),  *)
(*           session (refreshToken.create pending), done, failed           *)
(*   input, tenant   the handler's locals                                  *)
(*   result  the LoginResponse returned or the AppError thrown             *)
(*   fault   whether a database call of this call threw for a reason of    *)
(*           the database (connection loss, timeout)                       *)
(*   n       the number of this call among the calls of its handler        *)
(*   before  the tenants and refresh_tokens tables when this call began    *)
(***************************************************************************)
IdleRegister ==
    [pc |-> "idle", input |-> None, tenant |-> None, result |-> None,
     fault |-> FALSE, n |-> 0,
     before |-> [tenants |-> {}, refreshTokens |-> {}]]

RegisterBegin(g, input) ==
    /\ rg[g].pc \in {"idle", "done", "failed"}
    /\ registers < MaxRegisters
    /\ registers' = registers + 1
    /\ rg' = [rg EXCEPT ![g] =
            [IdleRegister EXCEPT !.pc = "username", !.input = input,
                !.n = registers + 1,
                !.before = [tenants |-> tenants,
                            refreshTokens |-> refreshTokens]]]
    /\ UNCHANGED <<now, secrets, tenants, employees, nextId, issued, authVars,
                   attendVars, planVars, logoutVars, employeeVars>>

\* prisma.tenant.findUnique({ where: { username: input.username } })
RegisterUsername(g, fault) ==
    LET existingUsername == FindTenantByUsername(tenants, rg[g].input.username)
    IN  /\ rg[g].pc = "username"
        /\ rg' = [rg EXCEPT ![g] =
                IF fault
                THEN Throw([@ EXCEPT !.fault = TRUE], PrismaError,
                           "Failed to register tenant")
                ELSE IF existingUsername # None
                THEN Throw(@, AppError("Username already exists", 409),
                           "Failed to register tenant")
                ELSE [@ EXCEPT !.pc = "gst"]]
        /\ UNCHANGED <<now, secrets, tenants, employees, nextId, issued,
                       authVars, attendVars, planVars, logoutVars, registers,
                       employeeVars>>

\* A lookup that never finds the row.
FindTenantByGst_Missing(rows, gst) == None

FindTenantByGst(rows, gst) == FirstOf({row \in rows : row.gst = gst})

\* prisma.tenant.findUnique({ where: { gst: input.gst } })
RegisterGst(g, fault) ==
    LET existingGST == FindTenantByGst(tenants, rg[g].input.gst)
    IN  /\ rg[g].pc = "gst"
        /\ rg' = [rg EXCEPT ![g] =
                IF fault
                THEN Throw([@ EXCEPT !.fault = TRUE], PrismaError,
                           "Failed to register tenant")
                ELSE IF existingGST # None
                THEN Throw(@, AppError("GST number already registered", 409),
                           "Failed to register tenant")
                ELSE [@ EXCEPT !.pc = "create"]]
        /\ UNCHANGED <<now, secrets, tenants, employees, nextId, issued,
                       authVars, attendVars, planVars, logoutVars, registers,
                       employeeVars>>

\* A tenants table without its two unique indexes.
ViolatesUnique_NoIndex(rows, username, gst) == FALSE

\* CREATE UNIQUE INDEX "tenants_gst_key" / "tenants_username_key": the
\* insert of such a row is refused with error P2002.
ViolatesUnique(rows, username, gst) ==
    \E row \in rows : row.username = username \/ row.gst = gst

\* "id" UUID NOT NULL, tenants_pkey: the ids given to the rows that are added.
TenantUuids == <<"t3", "t4", "t5", "t6">>

\* prisma.tenant.create({ data: { ..., planType: input.planType || 'FREE' } })
RegisterCreateTenant(g, fault) ==
    LET input == rg[g].input
        tenant == [id |-> TenantUuids[Cardinality(tenants)
                                        - Cardinality(SeedTenants) + 1],
                   tenantName |-> input.tenantName,
                   gst |-> input.gst,
                   username |-> input.username,
                   password |-> hashPassword(input.password),
                   planType |-> IF input.planType = "" THEN "FREE"
                                ELSE input.planType,
                   address |-> input.address,
                   latitude |-> input.latitude,
                   longitude |-> input.longitude]
    IN  /\ rg[g].pc = "create"
        /\ IF fault
           THEN /\ rg' = [rg EXCEPT ![g] = Throw([@ EXCEPT !.fault = TRUE],
                            PrismaError, "Failed to register tenant")]
                /\ UNCHANGED tenants
           ELSE IF ViolatesUnique(tenants, input.username, input.gst)
           THEN /\ rg' = [rg EXCEPT ![g] = Throw(@, PrismaError,
                                                 "Failed to register tenant")]
                /\ UNCHANGED tenants
           ELSE /\ tenants' = tenants \cup {tenant}
                /\ rg' = [rg EXCEPT ![g].pc = "session", ![g].tenant = tenant]
        /\ UNCHANGED <<now, secrets, employees, nextId, issued, authVars,
                       attendVars, planVars, logoutVars, registers,
                       employeeVars>>

\* The pair is signed, then prisma.refreshToken.create stores its hash.
RegisterCreateSession(g, fault) ==
    LET tenant == rg[g].tenant
        accessToken == generateAccessToken(
            [tenantId |-> tenant.id, username |-> tenant.username,
             planType |-> tenant.planType], secrets, now)
        refreshToken == generateRefreshToken(
            [tenantId |-> tenant.id, tokenId |-> nextId], secrets, now)
    IN  /\ rg[g].pc = "session"
        /\ IF fault
           THEN /\ rg' = [rg EXCEPT ![g] = Throw([@ EXCEPT !.fault = TRUE],
                            PrismaError, "Failed to register tenant")]
                /\ UNCHANGED <<refreshTokens, nextId, issued>>
           ELSE /\ refreshTokens' = CreateRefreshRow(refreshTokens, nextId + 1,
                                        tenant.id, refreshToken, now)
                /\ nextId' = nextId + 2
                /\ issued' = issued \cup {accessToken, refreshToken}
                /\ rg' = [rg EXCEPT ![g].pc = "done", ![g].result =
                            [app |-> TRUE, status |-> 201,
                             message |-> "Tenant registered successfully",
                             tenant |-> WithoutPassword(tenant),
                             accessToken |-> accessToken,
                             refreshToken |-> refreshToken]]
        /\ UNCHANGED <<now, secrets, tenants, employees, logins, refreshes,
                       presented, lastLogin, rf, attendVars, planVars,
                       logoutVars, registers, employeeVars>>

(***************************************************************************)
(* EmployeeService.updateEmployee and deleteEmployee.  One record per call:*)
(*   pc      idle, find (findFirst pending), write (update or delete       *)
(*           pending), done, failed                                        *)
(*   op      "update" or "delete"                                          *)
(*   employeeId, tenantId, data   the arguments (data: the updates)        *)
(*   employee  the row findFirst returned                                  *)
(*   result  the row returned, or the AppError thrown                      *)
(*   fault   whether a database call of this call threw for a reason of    *)
(*           the database                                                  *)
(*   n       the number of this call among the calls of the two handlers   *)
(***************************************************************************)
IdleEmployeeCall ==
    [pc |-> "idle", op |-> "", tenantId |-> "", employeeId |-> "",
     data |-> None, employee |-> None, result |-> None, fault |-> FALSE,
     n |-> 0]

\* The generic message of each handler's catch block.
EmployeeFailure(op) ==
    IF op = "update" THEN "Failed to update employee"
    ELSE "Failed to delete employee"

\* updateEmployee validates updates.embedding, when there is one, before
\* its first database call; deleteEmployee starts with the lookup.
EmployeeBegin(m, op, employeeId, tenantId, data) ==
    LET call == [IdleEmployeeCall EXCEPT !.op = op, !.employeeId = employeeId,
                    !.tenantId = tenantId, !.data = data, !.n = empCalls + 1]
    IN  /\ em[m].pc \in {"idle", "done", "failed"}
        /\ empCalls < MaxEmpCalls
        /\ empCalls' = empCalls + 1
        /\ em' = [em EXCEPT ![m] =
                IF /\ op = "update"
                   /\ "embedding" \in DOMAIN data
                   /\ ~isValidEmbedding(data.embedding)
                THEN Throw(call, AppError("Invalid embedding format", 400),
                           EmployeeFailure(op))
                ELSE [call EXCEPT !.pc = "find"]]
        /\ UNCHANGED <<now, secrets, tenants, employees, nextId, issued,
                       authVars, attendVars, planVars, logoutVars,
                       registerVars>>

\* A lookup by id alone.
FindEmployeeOfTenant_AnyTenant(rows, id, tenantId) ==
    FirstOf({row \in rows : row.id = id})

\* prisma.employee.findFirst({ where: { id: employeeId, tenantId } })
FindEmployeeOfTenant(rows, id, tenantId) ==
    FirstOf({row \in rows : row.id = id /\ row.tenantId = tenantId})

EmployeeFind(m, fault) ==
    LET call == em[m]
        employee == FindEmployeeOfTenant(employees, call.employeeId,
                                         call.tenantId)
    IN  /\ call.pc = "find"
        /\ em' = [em EXCEPT ![m] =
                IF fault
                THEN Throw([@ EXCEPT !.fault = TRUE], PrismaError,
                           EmployeeFailure(call.op))
                ELSE IF employee = None
                THEN Throw(@, AppError("Employee not found", 404),
                           EmployeeFailure(call.op))
                ELSE [@ EXCEPT !.pc = "write", !.employee = employee]]
        /\ UNCHANGED <<now, secrets, tenants, employees, nextId, issued,
                       authVars, attendVars, planVars, logoutVars,
                       registerVars, empCalls>>

\* attendances_employeeId_fkey ... ON DELETE CASCADE
DeleteCascade(rows, employeeId) ==
    {row \in rows : row.employeeId # employeeId}

\* prisma.employee.update({ where: { id }, data }) and
\* prisma.employee.delete({ where: { id } }): both throw when no row has
\* the id any more.
EmployeeWrite(m, fault) ==
    LET call == em[m]
        row == FindEmployeeById(employees, call.employeeId)
        updatedEmployee == ApplyUpdates(row, call.data)
    IN  /\ call.pc = "write"
        /\ IF fault \/ row = None
           THEN /\ em' = [em EXCEPT ![m] = Throw([@ EXCEPT !.fault = fault],
                            PrismaError, EmployeeFailure(call.op))]
                /\ UNCHANGED <<employees, attendances>>
           ELSE IF call.op = "update"
           THEN /\ employees' = (employees \ {row}) \cup {updatedEmployee}
                /\ em' = [em EXCEPT ![m].pc = "done",
                                    ![m].result = updatedEmployee]
                /\ UNCHANGED attendances
           ELSE /\ employees' = employees \ {row}
                /\ attendances' = DeleteCascade(attendances, call.employeeId)
                /\ em' = [em EXCEPT ![m].pc = "done"]
        /\ UNCHANGED <<now, secrets, tenants, nextId, issued, authVars,
                       locChecks, lastLoc, checkIns, ci, planVars, logoutVars,
                       registerVars, empCalls>>

(***************************************************************************)
(* The session specification: logins and refreshes, in any interleaving.   *)
(***************************************************************************)
\* The configurations the session handlers are run under: three secrets
\* of their own, or one secret for all three kinds.
AuthConfigs ==
    {cfg \in [Kinds -> Secrets] : validateConfig(cfg) /\
        cfg \in { [k \in Kinds |-> "k1"],
                  [access |-> "k1", refresh |-> "k2", location |-> "k3"] }}

Init ==
    /\ now = 0
    /\ secrets \in AuthConfigs
    /\ tenants = SeedTenants
    /\ employees = SeedEmployees
    /\ attendances = {}
    /\ refreshTokens = {}
    /\ nextId = 1
    /\ issued = {}
    /\ logins = 0
    /\ refreshes = 0
    /\ presented = {}
    /\ lastLogin = None
    /\ rf = [r \in RReq |-> IdleCall]
    /\ locChecks = 0
    /\ lastLoc = None
    /\ checkIns = 0
    /\ ci = [c \in CReq |-> IdleCheckIn]
    /\ updates = 0
    /\ lastUpdate = None
    /\ logouts = 0
    /\ lastLogout = None
    /\ registers = 0
    /\ rg = [g \in GReq |-> IdleRegister]
    /\ empCalls = 0
    /\ em = [m \in EReq |-> IdleEmployeeCall]

\* The three secrets differ, as in the environment PROJECT_SUMMARY.md shows.
InitAttend == Init /\ secrets = [access |-> "k1", refresh |-> "k2", location |-> "k3"]

Login == \E u \in Usernames, p \in Passwords, fault \in BOOLEAN :
            loginTenant(u, p, fault)

RefreshStart == \E r \in RReq, token \in issued \cup {ForgedRefreshToken} :
                    RefreshBegin(r, token)

RefreshFind == \E r \in RReq, fault \in BOOLEAN : RefreshRead(r, fault)

RefreshUpdate == \E r \in RReq, fault \in BOOLEAN : RefreshRevoke(r, fault)

RefreshInsert == \E r \in RReq, fault \in BOOLEAN : RefreshCreate(r, fault)

NextAuth ==
    \/ Login
    \/ RefreshStart
    \/ RefreshFind
    \/ RefreshUpdate
    \/ RefreshInsert
    \/ Tick

SpecAuth == Init /\ [][NextAuth]_vars

(***************************************************************************)
(* The same handlers called one after the other: a call begins only when   *)
(* no other call is in flight.                                             *)
(***************************************************************************)
NoCallInFlight == \A q \in RReq : rf[q].pc \in {"idle", "done", "failed"}

LoginSeq == NoCallInFlight /\ Login

\* The next call takes the slot of the record that has been kept longest.
OldestCall == CHOOSE r \in RReq : \A q \in RReq : rf[r].n <= rf[q].n

RefreshStartSeq ==
    /\ NoCallInFlight
    /\ \E token \in issued \cup {ForgedRefreshToken} :
            RefreshBegin(OldestCall, token)

NextAuthSeq ==
    \/ LoginSeq
    \/ RefreshStartSeq
    \/ RefreshFind
    \/ RefreshUpdate
    \/ RefreshInsert
    \/ Tick

SpecAuthSeq == Init /\ [][NextAuthSeq]_vars

(***************************************************************************)
(* The attendance specification: location checks and check-ins, in any     *)
(* interleaving.                                                           *)
(***************************************************************************)
PhotoUrls == {"selfie"}

\* A registered employee asks for a token from 1.5 km away from the office.
CheckLocationAway ==
    \E e \in {row.id : row \in SeedEmployees} :
        checkEmployeeLocation(
            [employeeId |-> e, latitude |-> OfficeLat + 135,
             longitude |-> OfficeLon], "none")

\* The requests of the registered employees, each with a well-formed
\* embedding and any token a client can hold.
CheckInInputs ==
    [locationToken : issued \cup {ForgedLocationToken},
     employeeId : {row.id : row \in SeedEmployees},
     photoUrl : PhotoUrls,
     embedding : {e \in Embeddings : isValidEmbedding(e)}]

CheckInStart == \E c \in CReq, input \in CheckInInputs : CheckInBegin(c, input)

CheckInGetEmployee == \E c \in CReq, fault \in BOOLEAN : CheckInEmployee(c, fault)

CheckInGetTenant == \E c \in CReq, fault \in BOOLEAN : CheckInTenant(c, fault)

CheckInCompareFaces ==
    \E c \in CReq, response \in RekognitionResponses : CheckInFaces(c, response)

CheckInFindFirst == \E c \in CReq, fault \in BOOLEAN : CheckInFind(c, fault)

CheckInInsert == \E c \in CReq, fault \in BOOLEAN : CheckInCreate(c, fault)

NextAttend ==
    \/ CheckLocationAway
    \/ CheckInStart
    \/ CheckInGetEmployee
    \/ CheckInGetTenant
    \/ CheckInCompareFaces
    \/ CheckInFindFirst
    \/ CheckInInsert
    \/ Tick

SpecAttend == InitAttend /\ [][NextAttend]_vars

(***************************************************************************)
(* The same handlers called one after the other.                           *)
(***************************************************************************)
NoCheckInInFlight == \A q \in CReq : ci[q].pc \in {"idle", "done", "failed"}

CheckLocationSeq == NoCheckInInFlight /\ CheckLocationAway

\* The next call takes the slot of the record that has been kept longest.
OldestCheckIn == CHOOSE c \in CReq : \A q \in CReq : ci[c].n <= ci[q].n

CheckInStartSeq ==
    /\ NoCheckInInFlight
    /\ \E input \in CheckInInputs : CheckInBegin(OldestCheckIn, input)

NextAttendSeq ==
    \/ CheckLocationSeq
    \/ CheckInStartSeq
    \/ CheckInGetEmployee
    \/ CheckInGetTenant
    \/ CheckInCompareFaces
    \/ CheckInFindFirst
    \/ CheckInInsert
    \/ Tick

SpecAttendSeq == InitAttend /\ [][NextAttendSeq]_vars

(***************************************************************************)
(* The logout specification: logins, refreshes and logouts, called one     *)
(* after the other.  The clock stands still, so no token expires, and the  *)
(* only database call that may throw is that of logout.                    *)
(***************************************************************************)
TenantIds == {"t1", "t2"}

PlanTypes == {"FREE", "PAID"}

RefreshTokensHeld == {token \in issued : KindOf(token) = "refresh"}

Logout ==
    \E t \in TenantIds, token \in RefreshTokensHeld, fault \in BOOLEAN :
        logoutTenant(t, token, fault)

LogoutSeq == NoCallInFlight /\ Logout

\* Tenant t1's administrator logs in with the tenant's password.
LoginValidSeq ==
    /\ NoCallInFlight
    /\ \E tenant \in {row \in SeedTenants : row.id = "t1"}, p \in Passwords :
            /\ comparePassword(p, tenant.password)
            /\ loginTenant(tenant.username, p, FALSE)

\* A client presents a refresh token it holds.
RefreshHeldSeq ==
    /\ NoCallInFlight
    /\ \E token \in RefreshTokensHeld : RefreshBegin(OldestCall, token)

\* The database calls of a refresh, none of them throwing.
RefreshFindOk == \E r \in RReq : RefreshRead(r, FALSE)

RefreshUpdateOk == \E r \in RReq : RefreshRevoke(r, FALSE)

RefreshInsertOk == \E r \in RReq : RefreshCreate(r, FALSE)

NextLogoutSeq ==
    \/ LoginValidSeq
    \/ RefreshHeldSeq
    \/ RefreshFindOk
    \/ RefreshUpdateOk
    \/ RefreshInsertOk
    \/ LogoutSeq

SpecLogoutSeq == InitAttend /\ [][NextLogoutSeq]_vars

(***************************************************************************)
(* The plan specification: check-ins made one after the other, while the   *)
(* tenant's administrator switches the plan at any moment, between the     *)
(* steps of a check-in included.  The clock stands still.                  *)
(***************************************************************************)
UpdatePlan ==
    \E t \in TenantIds, plan \in PlanTypes, fault \in BOOLEAN :
        updateTenant(t, [planType |-> plan], fault)

NextPlan ==
    \/ CheckLocationSeq
    \/ CheckInStartSeq
    \/ CheckInGetEmployee
    \/ CheckInGetTenant
    \/ CheckInCompareFaces
    \/ CheckInFindFirst
    \/ CheckInInsert
    \/ UpdatePlan

SpecPlan == InitAttend /\ [][NextPlan]_vars

(***************************************************************************)
(* A plan switch between the location check and the check-in: the location *)
(* proofs are issued while the tenants have the plans they were stored     *)
(* with, then updateTenant and checkIn calls follow, the check-ins one     *)
(* after the other.                                                        *)
(***************************************************************************)
CheckLocationBeforeSwitch ==
    /\ updates = 0
    /\ checkIns = 0
    /\ CheckLocationAway

NextSwitch ==
    \/ CheckLocationBeforeSwitch
    \/ UpdatePlan
    \/ CheckInStartSeq
    \/ CheckInGetEmployee
    \/ CheckInGetTenant
    \/ CheckInCompareFaces
    \/ CheckInFindFirst
    \/ CheckInInsert

SpecSwitch == InitAttend /\ [][NextSwitch]_vars

(***************************************************************************)
(* The token specification: every accepted configuration, and the two      *)
(* handlers that hand tokens out.                                          *)
(***************************************************************************)
\* What the environment may hold for the three secrets; validateConfig
\* stops the server when one is missing.
AcceptedConfigs == {cfg \in [Kinds -> Secrets \cup {""}] : validateConfig(cfg)}

\* Secrets are opaque strings, so the access secret may be taken to be "k1":
\* the other two range over all three, equal to it, to each other, or neither.
InitTokens ==
    /\ secrets \in {cfg \in AcceptedConfigs : cfg["access"] = "k1"}
    /\ now = 0
    /\ tenants = SeedTenants
    /\ employees = SeedEmployees
    /\ attendances = {}
    /\ refreshTokens = {}
    /\ nextId = 1
    /\ issued = {}
    /\ logins = 0
    /\ refreshes = 0
    /\ presented = {}
    /\ lastLogin = None
    /\ rf = [r \in RReq |-> IdleCall]
    /\ locChecks = 0
    /\ lastLoc = None
    /\ checkIns = 0
    /\ ci = [c \in CReq |-> IdleCheckIn]
    /\ updates = 0
    /\ lastUpdate = None
    /\ logouts = 0
    /\ lastLogout = None
    /\ registers = 0
    /\ rg = [g \in GReq |-> IdleRegister]
    /\ empCalls = 0
    /\ em = [m \in EReq |-> IdleEmployeeCall]

NextTokens ==
    \/ Login
    \/ CheckLocationAway
    \/ Tick

SpecTokens == InitTokens /\ [][NextTokens]_vars

(***************************************************************************)
(* The location specification: checkEmployeeLocation on every input.       *)
(***************************************************************************)
CheckLocation ==
    \E e \in EmployeeIds, lat \in Latitudes, lon \in Longitudes,
       fault \in DbFaults :
        checkEmployeeLocation(
            [employeeId |-> e, latitude |-> lat, longitude |-> lon], fault)

NextLocate ==
    \/ CheckLocation
    \/ Tick

SpecLocate == InitAttend /\ [][NextLocate]_vars

(***************************************************************************)
(* The coordinate specification: checkEmployeeLocation at and around the   *)
(* limits of the coordinate ranges.                                        *)
(***************************************************************************)
\* <<latitude, longitude>>: the poles and one unit beyond, the antimeridian
\* and one unit beyond (1.5 km north of the office), a point with neither
\* coordinate in range, and the office door.
CoordinateProbes ==
    {<<900000, OfficeLon>>, <<0 - 900000, OfficeLon>>,
     <<900001, OfficeLon>>, <<0 - 900001, OfficeLon>>,
     <<OfficeLat + 135, 1800000>>, <<OfficeLat + 135, 0 - 1800000>>,
     <<OfficeLat + 135, 1800001>>, <<OfficeLat + 135, 0 - 1800001>>,
     <<900001, 1800001>>, <<OfficeLat, OfficeLon>>}

CheckLocationProbe ==
    \E e \in EmployeeIds, point \in CoordinateProbes, fault \in DbFaults :
        checkEmployeeLocation(
            [employeeId |-> e, latitude |-> point[1], longitude |-> point[2]],
            fault)

NextCoords ==
    \/ CheckLocationProbe
    \/ Tick

SpecCoords == InitAttend /\ [][NextCoords]_vars

(***************************************************************************)
(* Registration: registerTenant calls that interleave at their awaits.     *)
(***************************************************************************)
RegisterUsernames == {"u1", "u3"}
RegisterGsts == {"g1", "g3", "g4"}

\* Bodies admitted by registerTenantSchema; planType is optional.
RegisterInputs ==
    [tenantName : {"Cape"}, gst : RegisterGsts, username : RegisterUsernames,
     password : {"pw3"}, planType : {""}, address : {"a3"},
     latitude : {OfficeLat}, longitude : {OfficeLon}]

RegisterStart == \E g \in GReq, input \in RegisterInputs : RegisterBegin(g, input)

RegisterFindUsername == \E g \in GReq, fault \in BOOLEAN : RegisterUsername(g, fault)

RegisterFindGst == \E g \in GReq, fault \in BOOLEAN : RegisterGst(g, fault)

RegisterInsertTenant ==
    \E g \in GReq, fault \in BOOLEAN : RegisterCreateTenant(g, fault)

RegisterInsertSession ==
    \E g \in GReq, fault \in BOOLEAN : RegisterCreateSession(g, fault)

NextRegister ==
    \/ RegisterStart
    \/ RegisterFindUsername
    \/ RegisterFindGst
    \/ RegisterInsertTenant
    \/ RegisterInsertSession

SpecRegister == InitAttend /\ [][NextRegister]_vars

\* The same handler called one call after the other.
NoRegisterInFlight == \A g \in GReq : rg[g].pc \in {"idle", "done", "failed"}

OldestRegister == CHOOSE g \in GReq : \A q \in GReq : rg[g].n <= rg[q].n

RegisterStartSeq ==
    /\ NoRegisterInFlight
    /\ \E input \in RegisterInputs : RegisterBegin(OldestRegister, input)

NextRegisterSeq ==
    \/ RegisterStartSeq
    \/ RegisterFindUsername
    \/ RegisterFindGst
    \/ RegisterInsertTenant
    \/ RegisterInsertSession

SpecRegisterSeq == InitAttend /\ [][NextRegisterSeq]_vars

(***************************************************************************)
(* Logouts among the sessions of several tenants: a tenant registers, the  *)
(* tenants log in, and any tenant's logout names any token a client holds  *)
(* or makes up.  No database call but that of logout throws.               *)
(***************************************************************************)
RegisterNewcomer ==
    /\ NoRegisterInFlight
    /\ RegisterBegin(OldestRegister,
            [tenantName |-> "Cape", gst |-> "g3", username |-> "u3",
             password |-> "pw3", planType |-> "", address |-> "a3",
             latitude |-> OfficeLat, longitude |-> OfficeLon])

RegisterFindUsernameOk == \E g \in GReq : RegisterUsername(g, FALSE)

RegisterFindGstOk == \E g \in GReq : RegisterGst(g, FALSE)

RegisterInsertTenantOk == \E g \in GReq : RegisterCreateTenant(g, FALSE)

RegisterInsertSessionOk == \E g \in GReq : RegisterCreateSession(g, FALSE)

\* A registered tenant's administrator logs in with the tenant's password.
LoginOwn ==
    /\ NoRegisterInFlight
    /\ \E tenant \in tenants, p \in Passwords \cup {"pw3"} :
            /\ comparePassword(p, tenant.password)
            /\ loginTenant(tenant.username, p, FALSE)

LogoutAny ==
    /\ NoRegisterInFlight
    /\ \E t \in {row.id : row \in tenants},
          token \in RefreshTokensHeld \cup {ForgedRefreshToken},
          fault \in BOOLEAN :
            logoutTenant(t, token, fault)

NextLogoutFrame ==
    \/ RegisterNewcomer
    \/ RegisterFindUsernameOk
    \/ RegisterFindGstOk
    \/ RegisterInsertTenantOk
    \/ RegisterInsertSessionOk
    \/ LoginOwn
    \/ LogoutAny

SpecLogoutFrame == InitAttend /\ [][NextLogoutFrame]_vars

(***************************************************************************)
(* Logins among registrations: the sessions registerTenant stored are the  *)
(* rows a later loginTenant finds in the table.                            *)
(***************************************************************************)
NextLogin ==
    \/ Login
    \/ RegisterStartSeq
    \/ RegisterFindUsername
    \/ RegisterFindGst
    \/ RegisterInsertTenant
    \/ RegisterInsertSession

SpecLogin == InitAttend /\ [][NextLogin]_vars

(***************************************************************************)
(* Employee administration: updateEmployee and deleteEmployee calls of the *)
(* two tenants, in any interleaving, over employees that have checked in.  *)
(***************************************************************************)
\* The rows two earlier check-ins created: e1 of the FREE tenant t1 and e3
\* of the PAID tenant t2.
SeedAttendances ==
    { [id |-> 101, tenantId |-> "t1", employeeId |-> "e1",
       photoUrl |-> "selfie", embedding |-> <<12, 7>>, checkInTime |-> 0,
       matchConfidence |-> None],
      [id |-> 102, tenantId |-> "t2", employeeId |-> "e3",
       photoUrl |-> "selfie", embedding |-> <<12, 7>>, checkInTime |-> 0,
       matchConfidence |-> [value |-> 90]] }

InitEmployee ==
    /\ secrets = [access |-> "k1", refresh |-> "k2", location |-> "k3"]
    /\ now = 0
    /\ tenants = SeedTenants
    /\ employees = SeedEmployees
    /\ attendances = SeedAttendances
    /\ refreshTokens = {}
    /\ nextId = 1
    /\ issued = {}
    /\ logins = 0
    /\ refreshes = 0
    /\ presented = {}
    /\ lastLogin = None
    /\ rf = [r \in RReq |-> IdleCall]
    /\ locChecks = 0
    /\ lastLoc = None
    /\ checkIns = 0
    /\ ci = [c \in CReq |-> IdleCheckIn]
    /\ updates = 0
    /\ lastUpdate = None
    /\ logouts = 0
    /\ lastLogout = None
    /\ registers = 0
    /\ rg = [g \in GReq |-> IdleRegister]
    /\ empCalls = 0
    /\ em = [m \in EReq |-> IdleEmployeeCall]

\* Bodies admitted by updateEmployeeSchema (unknown keys are stripped).
EmployeeUpdates == {[photoUrl |-> "ref9"]}

EmployeeTargets == {"e1", "e3", "e9"}

UpdateEmployeeStart ==
    \E m \in EReq, e \in EmployeeTargets, t \in TenantIds,
       data \in EmployeeUpdates : EmployeeBegin(m, "update", e, t, data)

DeleteEmployeeStart ==
    \E m \in EReq, e \in EmployeeTargets, t \in TenantIds :
        EmployeeBegin(m, "delete", e, t, None)

EmployeeLookup == \E m \in EReq, fault \in BOOLEAN : EmployeeFind(m, fault)

EmployeeApply == \E m \in EReq, fault \in BOOLEAN : EmployeeWrite(m, fault)

NextEmployee ==
    \/ UpdateEmployeeStart
    \/ DeleteEmployeeStart
    \/ EmployeeLookup
    \/ EmployeeApply

SpecEmployee == InitEmployee /\ [][NextEmployee]_vars

(***************************************************************************)
(* Check-ins of every shape, one call after the other, among deletions of  *)
(* employees: the token may be forged or another employee's, the embedding *)
(* malformed, the employee gone, the day's row already there.  The clock   *)
(* stands still.                                                           *)
(***************************************************************************)
NoEmployeeCallInFlight ==
    \A m \in EReq : em[m].pc \in {"idle", "done", "failed"}

CheckLocationOrder ==
    /\ NoCheckInInFlight
    /\ NoEmployeeCallInFlight
    /\ \E e \in {"e1", "e3"} :
            checkEmployeeLocation(
                [employeeId |-> e, latitude |-> OfficeLat + 135,
                 longitude |-> OfficeLon], "none")

\* Requests as AttendanceService.checkIn may be handed them.
CheckInInputsOrder ==
    [locationToken : issued \cup {ForgedLocationToken},
     employeeId : {"e1", "e3"},
     photoUrl : PhotoUrls,
     embedding : Embeddings]

CheckInStartOrder ==
    /\ NoCheckInInFlight
    /\ NoEmployeeCallInFlight
    /\ \E input \in CheckInInputsOrder : CheckInBegin(OldestCheckIn, input)

\* The owner deletes an employee while no other call is in flight.
DeleteEmployeeOrder ==
    /\ NoCheckInInFlight
    /\ NoEmployeeCallInFlight
    /\ \E row \in employees :
            /\ row.id \in {"e1", "e3"}
            /\ EmployeeBegin("m1", "delete", row.id, row.tenantId, None)

EmployeeLookupOk == \E m \in EReq : EmployeeFind(m, FALSE)

EmployeeApplyOk == \E m \in EReq : EmployeeWrite(m, FALSE)

NextOrder ==
    \/ CheckLocationOrder
    \/ CheckInStartOrder
    \/ CheckInGetEmployee
    \/ CheckInGetTenant
    \/ CheckInCompareFaces
    \/ CheckInFindFirst
    \/ CheckInInsert
    \/ DeleteEmployeeOrder
    \/ EmployeeLookupOk
    \/ EmployeeApplyOk

SpecOrder == InitAttend /\ [][NextOrder]_vars

(***************************************************************************)
(* Properties of refresh-token rotation.                                   *)
(***************************************************************************)
\* Call r of refreshAccessToken returns in this step.
RefreshReturns(r) ==
    /\ rf'[r].pc \in {"done", "failed"}
    /\ rf[r].pc \notin {"done", "failed"} \/ rf'[r].n # rf[r].n

WithRevoked(rows, tokenHash) ==
    {IF row.tokenHash = tokenHash THEN [row EXCEPT !.isRevoked = TRUE] ELSE row
        : row \in rows}

\* C1: refresh rotation is all-or-nothing.  A call that returns the new pair
\* has revoked the presented row and added exactly one unrevoked row of the
\* same tenant; a call that throws leaves the table as it was when the call
\* began.  (Calls run one after the other here, so the table changes only
\* by the call itself.)
C1_RefreshAllOrNothing ==
    [][\A r \in RReq : RefreshReturns(r) =>
        LET call == rf'[r]
        IN  IF call.pc = "done"
            THEN \E new \in refreshTokens' :
                    /\ new.id \notin {row.id : row \in call.before}
                    /\ new.tokenHash = hashToken(call.result.refreshToken)
                    /\ ~new.isRevoked
                    /\ new.tenantId = call.storedToken.tenantId
                    /\ refreshTokens' =
                        WithRevoked(call.before, hashToken(call.token))
                            \cup {new}
            ELSE refreshTokens' = call.before]_vars

C3_WitnessChain ==
    \E a, b \in RReq :
        /\ rf[a].pc = "done" /\ rf[b].pc = "done" /\ a \in rf[b].after
        /\ rf[b].token = rf[a].result.refreshToken

\* C4: a refresh token is exchanged at most once, in every interleaving of
\* the calls that present it: no two calls return a new pair for one token.
C4_ExchangedAtMostOnce ==
    \A a, b \in RReq :
        (a # b /\ rf[a].pc = "done" /\ rf[b].pc = "done") =>
            rf[a].token # rf[b].token

\* C8: a refresh that fails for a reason of the token (bad signature, past
\* its exp, no stored row, revoked row, expired row) is answered 401 and
\* leaves the table as it was.
C8_RefreshFailureIsUnauthorized ==
    [][\A r \in RReq :
        (RefreshReturns(r) /\ rf'[r].pc = "failed" /\ ~rf'[r].fault) =>
            /\ rf'[r].result.status = 401
            /\ refreshTokens' = rf'[r].before]_vars


(***************************************************************************)
(* Properties of the check-in protocol.                                    *)
(***************************************************************************)
\* The step returns call c: a step of a call in flight, or the first step
\* of a call that fails before its first await.
CheckInReturns(c) ==
    /\ ci'[c].pc \in {"done", "failed"}
    /\ ci[c].pc \notin {"done", "failed"} \/ ci'[c].n # ci[c].n

SameDay(t1, t2) == StartOfDay(t1) = StartOfDay(t2)

\* C2: in every reachable state, concurrent check-ins of one employee
\* included, the attendances table holds at most one row per employee and
\* calendar day.
C2_OneAttendancePerDay ==
    \A a \in attendances, b \in attendances :
        (a.employeeId = b.employeeId /\ SameDay(a.checkInTime, b.checkInTime))
            => a = b

\* C5: checkIn creates an Attendance row only for a call whose location
\* token verified under the location secret when the call began, whose
\* token names the employee of the request, and whose token names the
\* tenant of the stored employee; the row carries that employee and the
\* tenant that owns the employee.
C5_CreatedOnlyForBoundProof ==
    [][\A row \in attendances' \ attendances :
        \E c \in CReq :
            LET call == ci'[c]
                token == call.input.locationToken
                employee == FindEmployeeById(employees, call.input.employeeId)
            IN  /\ ci[c].pc = "create"
                /\ call.pc = "done"
                /\ call.result = row
                /\ jwtVerify(token, secrets["location"], call.began).ok
                /\ token.payload.employeeId = call.input.employeeId
                /\ employee # None
                /\ token.payload.tenantId = employee.tenantId
                /\ row.employeeId = employee.id
                /\ row.tenantId = employee.tenantId
      ]_vars

\* A call has created a row for the PAID tenant's employee.
C5_Witness ==
    \E c \in CReq :
        /\ ci[c].pc = "done"
        /\ ci[c].result \in attendances
        /\ ci[c].result.tenantId = "t2"

\* C6: of two check-ins of one employee made one after the other on one
\* calendar day, both passing the checks before the look-up of today's row,
\* the first has created an Attendance and the second fails with 409
\* "Already checked in today" and creates nothing.
C6_SecondCheckInSameDay ==
    [][\A b \in CReq : CheckInReturns(b) =>
        LET call == ci'[b]
        IN  \A a \in call.after :
                ( /\ ci[a].pc = "done"
                  /\ ci[a].input.employeeId = call.input.employeeId
                  /\ SameDay(ci[a].result.checkInTime, call.began)
                  /\ SameDay(call.began, now)
                  /\ ci[b].pc \in {"find", "create"}
                  /\ ~call.fault )
                =>
                ( /\ ci[a].result \in call.before
                  /\ call.pc = "failed"
                  /\ call.result = AppError("Already checked in today", 409)
                  /\ attendances' = call.before )
      ]_vars

\* The second check-in of the day has been turned away.
C6_Witness ==
    \E a \in CReq, b \in CReq :
        /\ a \in ci[b].after
        /\ ci[a].pc = "done"
        /\ ci[a].input.employeeId = ci[b].input.employeeId
        /\ SameDay(ci[a].result.checkInTime, ci[b].began)
        /\ ci[b].pc = "failed"
        /\ ci[b].result = AppError("Already checked in today", 409)

\* C7: a checkEmployeeLocation call that returns (an existing employee,
\* valid coordinates) issues a location token exactly when the reported
\* point is farther than the configured radius from the tenant's office;
\* inside it returns success = false and no token; outside it returns a
\* token that verifies to the employee's id and the employee's tenantId.
C7_TokenIffOutsideRadius ==
    [][locChecks' # locChecks =>
        LET input == lastLoc'.input
            result == lastLoc'.result
            employee == FindEmployeeById(employees, input.employeeId)
            tenant == FindTenantById(tenants, employee.tenantId)
            outside == calculateDistance(input.latitude, input.longitude,
                           tenant.latitude, tenant.longitude)
                       > AllowedCheckInRadius
        IN  IF "success" \notin DOMAIN result
            THEN issued' = issued
            ELSE /\ validateCoordinates(input.latitude, input.longitude).isValid
                 /\ employee # None
                 /\ result.success <=> outside
                 /\ Issues(result) <=> outside
                 /\ ~outside => issued' = issued
                 /\ outside =>
                      LET v == jwtVerify(result.locationToken,
                                         secrets["location"], now')
                      IN  /\ issued' = issued \cup {result.locationToken}
                          /\ v.ok
                          /\ v.payload.employeeId = employee.id
                          /\ v.payload.tenantId = employee.tenantId
      ]_vars

\* A token has been issued to an employee 1.5 km from the office.
C7_Witness ==
    /\ lastLoc # None
    /\ Issues(lastLoc.result)
    /\ lastLoc.result.locationToken \in issued

\* A call from 55 m from the office has been denied.
C7_WitnessInside ==
    /\ lastLoc # None
    /\ "success" \in DOMAIN lastLoc.result
    /\ ~lastLoc.result.success
    /\ issued = {}

\* C9: under every accepted configuration, a token issued for one kind
\* fails the verifier of each other kind.
C9_CrossKindNeverVerifies ==
    \A token \in issued :
        /\ KindOf(token) # "access" => ~verifyAccessToken(token, secrets, now).ok
        /\ KindOf(token) # "refresh" => ~verifyRefreshToken(token, secrets, now).ok
        /\ KindOf(token) # "location" => ~verifyLocationToken(token, secrets, now).ok

C11_ExpiredTokenRejected ==
    [][\A c \in CReq : CheckInReturns(c) =>
        LET call == ci'[c]
            token == call.input.locationToken
        IN  (token \in issued /\ call.began >= token.exp)
            =>
            ( /\ call.pc = "failed"
              /\ call.result = AppError("Invalid or expired location token", 401)
              /\ attendances' = call.before )
      ]_vars

\* A token issued by the server has been turned away after its window, in
\* a request that names the token's own employee.
C11_Witness ==
    \E c \in CReq :
        /\ ci[c].pc = "failed"
        /\ ci[c].input.locationToken \in issued
        /\ ci[c].began >= ci[c].input.locationToken.exp
        /\ ci[c].input.employeeId = ci[c].input.locationToken.payload.employeeId
        /\ ci[c].result = AppError("Invalid or expired location token", 401)


\* The best face match of an answer is below the threshold, or there is none.
BelowThreshold(response) ==
    \/ Len(response.FaceMatches) = 0
    \/ response.FaceMatches[1] < SimilarityThreshold

C12_WitnessBelow ==
    \E c \in CReq :
        /\ ci[c].pc = "failed"
        /\ ci[c].response # None
        /\ ci[c].response.FaceMatches = <<80>>
        /\ ci[c].result.status = 400


\* C13: when the oracle call of a PAID check-in errors, the check-in fails
\* as a below-threshold answer does, a client error of status 400, and
\* creates nothing.
C13_OracleErrorIsVerificationFailure ==
    [][\A c \in CReq :
        ( /\ CheckInReturns(c)
          /\ ci'[c].response # None
          /\ ci'[c].response.error )
        =>
        ( /\ ci'[c].pc = "failed"
          /\ ci'[c].result.status = 400
          /\ attendances' = attendances )
      ]_vars

(***************************************************************************)
(* Properties of logout.                                                   *)
(***************************************************************************)
\* The session of the token is a row of the tenant.
SessionOf(rows, tenantId, token) ==
    {row \in rows : row.tokenHash = hashToken(token) /\ row.tenantId = tenantId}

\* C14: when logoutTenant(tenantId, refreshToken) returns for a token whose
\* session belongs to tenantId, the session is revoked; a refresh that
\* presents the token after that, the token verifying and no database call
\* throwing, fails with 401 "Invalid or revoked refresh token" and changes
\* no row; a further logout with the same arguments returns normally and
\* leaves the table as it is.
C14_LogoutRevokes ==
    [][ /\ logouts' # logouts =>
            LET call == lastLogout'
            IN  /\ ~call.fault =>
                    /\ call.result.status = 200
                    /\ \A row \in SessionOf(refreshTokens', call.tenantId,
                                            call.refreshToken) : row.isRevoked
                /\ (~call.fault /\ <<call.tenantId, call.refreshToken>> \in Served)
                        => refreshTokens' = refreshTokens
        /\ \A served \in Served :
                \A row \in SessionOf(refreshTokens, served[1], served[2]) :
                    row.isRevoked
        /\ \A r \in RReq : RefreshReturns(r) =>
            LET call == rf'[r]
            IN  ( /\ \E served \in Served :
                        /\ served[2] = call.token
                        /\ SessionOf(call.before, served[1], served[2]) # {}
                  /\ call.payload # None
                  /\ ~call.fault )
                =>
                ( /\ call.pc = "failed"
                  /\ call.result = AppError("Invalid or revoked refresh token", 401)
                  /\ refreshTokens' = call.before )
      ]_vars

\* A refresh has been turned away as revoked after the logout of its token.
C14_Witness ==
    /\ \E r \in RReq :
        /\ rf[r].pc = "failed"
        /\ rf[r].first
        /\ rf[r].result = AppError("Invalid or revoked refresh token", 401)
        /\ \E served \in Served :
            /\ served[2] = rf[r].token
            /\ SessionOf(refreshTokens, served[1], served[2]) # {}

\* The same logout has been served twice.
C14_WitnessTwice ==
    /\ logouts = 2
    /\ Cardinality(Served) = 1
    /\ ~lastLogout.fault
    /\ SessionOf(refreshTokens, lastLogout.tenantId, lastLogout.refreshToken) # {}

RegisterReturns(g) ==
    /\ rg'[g].pc \in {"done", "failed"}
    /\ rg[g].pc \notin {"idle", "done", "failed"}

\* C15: a registerTenant call whose username is that of a tenant existing
\* when the call begins fails with 409 'Username already exists'; one whose
\* username is new but whose GST number is that of an existing tenant fails
\* with 409 'GST number already registered'; when both exist the username
\* conflict is the one reported.  Either way the tenants and refresh_tokens
\* tables are left as the call found them.  (Calls one after the other, no
\* database failure in the call.)
C15_DuplicateRegistrationRejected ==
    [][\A g \in GReq : (RegisterReturns(g) /\ ~rg'[g].fault) =>
        LET call == rg'[g]
            usernameTaken == \E row \in call.before.tenants :
                                row.username = call.input.username
            gstTaken == \E row \in call.before.tenants :
                            row.gst = call.input.gst
        IN  (usernameTaken \/ gstTaken) =>
                /\ call.pc = "failed"
                /\ call.result =
                    IF usernameTaken
                    THEN AppError("Username already exists", 409)
                    ELSE AppError("GST number already registered", 409)
                /\ tenants' = call.before.tenants
                /\ refreshTokens' = call.before.refreshTokens]_vars

\* A call has been refused for its GST number alone, and another for a
\* username and a GST number that both exist.
C15_Witness ==
    /\ \E g \in GReq :
        /\ rg[g].pc = "failed"
        /\ rg[g].result = AppError("GST number already registered", 409)
        /\ rg[g].input.username = "u3"
    /\ \E g \in GReq :
        /\ rg[g].pc = "failed"
        /\ rg[g].result = AppError("Username already exists", 409)
        /\ rg[g].input.gst = "g1"

\* C16: in every reachable state, whatever the interleaving of the
\* registerTenant calls, no two rows of the tenants table have the same
\* username and no two have the same GST number.
C16_UniqueUsernameAndGst ==
    \A x \in tenants, y \in tenants :
        (x.username = y.username \/ x.gst = y.gst) => x = y

\* Two calls for one username passed both existence checks; one created its
\* tenant and the database refused the insert of the other.
C16_Witness ==
    \E g \in GReq, h \in GReq :
        /\ rg[g].pc = "done"
        /\ rg[h].pc = "failed"
        /\ ~rg[h].fault
        /\ rg[h].result = AppError("Failed to register tenant", 500)
        /\ rg[h].input.username = rg[g].input.username
        /\ rg[h].n > rg[g].n
        /\ rg[g].tenant \in tenants

\* C17: a registerTenant call that passed both existence checks and whose
\* username or GST number has meanwhile been taken by an interleaved call
\* fails with the 409 error of that conflict, not with a generic failure.
C17_RaceLoserGetsConflict ==
    [][\A g \in GReq :
        (/\ RegisterReturns(g)
         /\ rg[g].pc = "create"
         /\ ~rg'[g].fault
         /\ ViolatesUnique(tenants, rg[g].input.username, rg[g].input.gst)) =>
            /\ rg'[g].pc = "failed"
            /\ tenants' = tenants
            /\ rg'[g].result =
                IF \E row \in tenants : row.username = rg[g].input.username
                THEN AppError("Username already exists", 409)
                ELSE AppError("GST number already registered", 409)]_vars

\* C18: the session validation of refreshAccessToken rejects the stored
\* session as expired whenever the time of the validation is at or past the
\* session's expiresAt, in particular at the time equal to expiresAt.
C18_ExpiredAtOrPastExpiry ==
    [][\A r \in RReq :
        LET storedToken == FindStoredToken(refreshTokens, rf[r].token)
        IN  (/\ rf[r].pc = "verified"
             /\ rf'[r].pc # "verified"
             /\ ~rf'[r].fault
             /\ storedToken # None
             /\ ~storedToken.isRevoked
             /\ now >= storedToken.expiresAt) =>
                /\ rf'[r].pc = "failed"
                /\ rf'[r].result = AppError("Refresh token expired", 401)]_vars


\* C19: an updateEmployee or deleteEmployee call whose tenantId is not that
\* of the tenant owning the employee fails with 404 'Employee not found'
\* and changes neither the employee row nor its Attendance rows; and every
\* step that changes or removes an employee row, or removes Attendance rows
\* of an employee, is the write of a call carrying the tenantId of the
\* employee's owner.  (No database failure in the call.)
C19_CrossTenantCallsRejected ==
    [][/\ \A m \in EReq :
            LET owned == FindEmployeeById(employees, em[m].employeeId)
            IN  (/\ em[m].pc = "find"
                 /\ em'[m].pc # "find"
                 /\ ~em'[m].fault
                 /\ owned # None
                 /\ owned.tenantId # em[m].tenantId) =>
                    /\ em'[m].pc = "failed"
                    /\ em'[m].result = AppError("Employee not found", 404)
                    /\ employees' = employees
                    /\ attendances' = attendances
       /\ \A row \in employees :
            (\/ row \notin employees'
             \/ \E a \in attendances \ attendances' : a.employeeId = row.id) =>
                \E m \in EReq :
                    /\ em[m].pc = "write"
                    /\ em'[m].pc = "done"
                    /\ em[m].employeeId = row.id
                    /\ em[m].tenantId = row.tenantId]_vars

\* Tenant t2 has been refused the deletion of e1, an employee of t1 that
\* is still there with its Attendance row, and tenant t1 has updated e1.
C19_Witness ==
    /\ \E m \in EReq :
        /\ em[m].pc = "failed"
        /\ em[m].op = "delete"
        /\ em[m].employeeId = "e1"
        /\ em[m].tenantId = "t2"
        /\ em[m].result = AppError("Employee not found", 404)
    /\ \E m \in EReq :
        /\ em[m].pc = "done"
        /\ em[m].op = "update"
        /\ em[m].employeeId = "e1"
        /\ em[m].tenantId = "t1"
    /\ \E row \in employees : row.id = "e1" /\ row.photoUrl = "ref9"
    /\ \E a \in attendances : a.employeeId = "e1"

\* Tenant t2 has deleted its employee e3, and the Attendance row of e3 has
\* gone with it.
C19_WitnessDelete ==
    /\ \E m \in EReq :
        /\ em[m].pc = "done"
        /\ em[m].op = "delete"
        /\ em[m].employeeId = "e3"
        /\ em[m].tenantId = "t2"
    /\ \A row \in employees : row.id # "e3"
    /\ \A a \in attendances : a.employeeId # "e3"


\* C20: a loginTenant call for an unknown username or with a wrong password
\* fails with 401 and one and the same message, 'Invalid username or
\* password', and adds no session row; a call with the password of the
\* tenant of that username adds exactly one session row, unrevoked and of
\* that tenant, and leaves every existing row as it was.  (No database
\* failure in the call.)
C20_LoginOutcome ==
    [][\A u \in Usernames, p \in Passwords :
        loginTenant(u, p, FALSE) =>
            LET tenant == FindTenantByUsername(tenants, u)
            IN  IF tenant = None
                THEN /\ lastLogin' = AppError("Invalid username or password", 401)
                     /\ refreshTokens' = refreshTokens
                ELSE IF tenant.password # hashPassword(p)
                THEN /\ lastLogin' = AppError("Invalid username or password", 401)
                     /\ refreshTokens' = refreshTokens
                ELSE /\ lastLogin'.status = 200
                     /\ \E new \in refreshTokens' :
                            /\ new.id \notin {row.id : row \in refreshTokens}
                            /\ new.tenantId = tenant.id
                            /\ ~new.isRevoked
                            /\ new.tokenHash = hashToken(lastLogin'.refreshToken)
                            /\ refreshTokens' = refreshTokens \cup {new}]_vars

\* A login succeeded while the table held the session of a registration,
\* and that session is still there.
C20_Witness ==
    /\ lastLogin # None
    /\ lastLogin.status = 200
    /\ \E new \in refreshTokens, row \in refreshTokens :
        /\ new.tokenHash = hashToken(lastLogin.refreshToken)
        /\ new.tenantId = lastLogin.tenantId
        /\ row.id < new.id
        /\ row.tenantId # new.tenantId

\* A login was refused as unauthorized and the table holds no session.
C20_WitnessRefused ==
    /\ lastLogin = AppError("Invalid username or password", 401)
    /\ refreshTokens = {}
    /\ logins = 1


\* The payloads the handlers sign.
AccessPayloads ==
    {[tenantId |-> x.id, username |-> x.username, planType |-> x.planType] :
        x \in SeedTenants}

RefreshPayloads == [tenantId : TenantIds, tokenId : 1..3]

LocationPayloads ==
    [tenantId : TenantIds, employeeId : {"e1", "e3"}, latitude : Latitudes,
     longitude : Longitudes]

\* The verifier accepted the token and every field of the signed payload
\* is in what it returned, with the value it was signed with.
ReturnsFieldsOf(v, payload) ==
    /\ v.ok
    /\ \A f \in DOMAIN payload :
        f \in DOMAIN v.payload /\ v.payload[f] = payload[f]

StepOf(error) ==
    IF error.message = "Invalid or expired location token" THEN "token"
    ELSE IF error.message = "Employee ID mismatch with location token"
    THEN "employeeId"
    ELSE IF error.message = "Invalid embedding format" THEN "embedding"
    ELSE IF error.message = "Employee not found" THEN "employee"
    ELSE IF error.message = "Tenant not found" THEN "tenant"
    ELSE IF error.message = "Tenant mismatch" THEN "tenantMatch"
    ELSE IF error.message \in
            {"Face verification failed. Please try again with a clear photo.",
             "Face verification failed. Please try again."}
    THEN "faces"
    ELSE IF error.message = "Already checked in today" THEN "already"
    ELSE "other"

\* A database call of the check-in threw (an error of the oracle is the
\* failure of the face verification step, not of the database).
DatabaseFault(call) ==
    call.fault /\ (call.response = None \/ ~call.response.error)

\* The earliest step, in the order token verification, employeeId
\* cross-check, embedding validity, employee lookup, tenant lookup, tenant
\* cross-check, face verification, already-checked-in, that the request of
\* `call` fails in the tables as they are; "none" when it fails none.
FirstFailure(call) ==
    LET input == call.input
        token == input.locationToken
        employee == FindEmployeeById(employees, input.employeeId)
        tenant == FindTenantById(tenants, employee.tenantId)
    IN  IF token.key # secrets["location"] \/ now >= token.exp
        THEN "token"
        ELSE IF \/ "employeeId" \notin DOMAIN token.payload
                \/ token.payload.employeeId # input.employeeId
        THEN "employeeId"
        ELSE IF ~isValidEmbedding(input.embedding) THEN "embedding"
        ELSE IF employee = None THEN "employee"
        ELSE IF tenant = None THEN "tenant"
        ELSE IF employee.tenantId # token.payload.tenantId THEN "tenantMatch"
        ELSE IF /\ tenant.planType = "PAID"
                /\ \/ call.response = None
                   \/ call.response.error
                   \/ ~compareFaces(call.response).isMatch
        THEN "faces"
        ELSE IF \E row \in call.before :
                    /\ row.employeeId = input.employeeId
                    /\ row.checkInTime >= StartOfDay(now)
        THEN "already"
        ELSE "none"

C22_WitnessFaces ==
    \E c, d \in CReq :
        /\ ci[c].pc = "done"
        /\ ci[d].pc = "failed"
        /\ ci[d].n > ci[c].n
        /\ ci[d].input.employeeId = ci[c].input.employeeId
        /\ StepOf(ci[d].result) = "faces"
        /\ ci[c].result \in attendances


\* C23: the step at which a checkIn call returns a failure, of whatever
\* kind, leaves the attendances table as it is (no earlier step of the call
\* writes); the step at which a call returns success adds exactly one row,
\* the one it returns, for the employee of the request and with the
\* photoUrl and the embedding of the request.
C23_FailureWritesNothing ==
    [][\A c \in CReq : CheckInReturns(c) =>
        LET call == ci'[c]
        IN  IF call.pc = "failed"
            THEN attendances' = attendances
            ELSE \E row \in attendances' \ attendances :
                    /\ attendances' = attendances \cup {row}
                    /\ row.id \notin {x.id : x \in attendances}
                    /\ row = call.result
                    /\ row.employeeId = call.input.employeeId
                    /\ row.photoUrl = call.input.photoUrl
                    /\ row.embedding = call.input.embedding]_vars

\* One call has returned a row that is in the table, one call has failed
\* on a database error after passing every check, and the table holds the
\* one row.
C23_Witness ==
    \E c, d \in CReq :
        /\ ci[c].pc = "done"
        /\ ci[c].result \in attendances
        /\ ci[d].pc = "failed"
        /\ ci[d].fault
        /\ ci[d].result = AppError("Failed to process check-in", 500)
        /\ Cardinality(attendances) = 1


C24_WitnessAfterFailure ==
    \E c, d \in CReq :
        /\ ci[c].pc = "failed"
        /\ StepOf(ci[c].result) = "faces"
        /\ ci[d].pc = "done"
        /\ ci[d].n > ci[c].n
        /\ ci[c].input.locationToken = ci[d].input.locationToken


\* C25: the look-up step of checkIn (no database failure) fails with 409
\* 'Already checked in today' exactly when the table holds a row of the
\* request's employee whose checkInTime is at or after the start of the
\* calendar day on which the handler took the date; otherwise the call
\* goes on to create its row, whatever rows of earlier days there are.
C25_BlockedIffRowOfToday ==
    [][\A c \in CReq :
        (ci[c].pc = "find" /\ ci'[c].pc # "find" /\ ~ci'[c].fault) =>
            LET ofToday == \E row \in attendances :
                    /\ row.employeeId = ci[c].input.employeeId
                    /\ row.checkInTime >= ci[c].today
            IN  /\ ci[c].today = StartOfDay(ci[c].today)
                /\ IF ofToday
                   THEN /\ ci'[c].pc = "failed"
                        /\ ci'[c].result =
                            AppError("Already checked in today", 409)
                   ELSE ci'[c].pc = "create"]_vars

\* An employee with a row of an earlier day has checked in again after the
\* day boundary: the new row is of a later calendar day.
C25_Witness ==
    \E c \in CReq, old \in attendances :
        /\ ci[c].pc = "done"
        /\ ci[c].result \in attendances
        /\ old.employeeId = ci[c].result.employeeId
        /\ StartOfDay(old.checkInTime) < ci[c].today
        /\ ci[c].today <= ci[c].result.checkInTime

\* A call was refused because of the employee's row of the same day.
C25_WitnessBlocked ==
    \E c \in CReq, old \in attendances :
        /\ ci[c].pc = "failed"
        /\ ci[c].result = AppError("Already checked in today", 409)
        /\ old.employeeId = ci[c].input.employeeId
        /\ StartOfDay(old.checkInTime) = ci[c].today


\* C26: checkEmployeeLocation refuses a latitude outside [-90, 90] and then
\* a longitude outside [-180, 180] with 400, the limits themselves being
\* accepted, and it does so before any look-up: a failing database does not
\* change the answer.  With coordinates in range and a working database it
\* fails with 404 'Employee not found' when the employee is unknown, then
\* with 404 'Tenant not found' when the employee's tenant is; otherwise it
\* answers.  No failure issues a token.
C26_LocationFailureOrder ==
    [][\A e \in EmployeeIds, point \in CoordinateProbes, fault \in DbFaults :
        LET input == [employeeId |-> e, latitude |-> point[1],
                      longitude |-> point[2]]
            result == lastLoc'.result
            employee == FindEmployeeById(employees, e)
        IN  checkEmployeeLocation(input, fault) =>
                /\ IF point[1] < 0 - 900000 \/ point[1] > 900000
                   THEN result = AppError(
                            "Invalid latitude. Must be between -90 and 90", 400)
                   ELSE IF point[2] < 0 - 1800000 \/ point[2] > 1800000
                   THEN result = AppError(
                            "Invalid longitude. Must be between -180 and 180", 400)
                   ELSE IF fault # "none"
                   THEN "success" \notin DOMAIN result
                            => result.status \in {404, 500}
                   ELSE IF employee = None
                   THEN result = AppError("Employee not found", 404)
                   ELSE IF FindTenantById(tenants, employee.tenantId) = None
                   THEN result = AppError("Tenant not found", 404)
                   ELSE "success" \in DOMAIN result
                /\ "success" \notin DOMAIN result =>
                        ~Issues(result) /\ issued' = issued]_vars

\* A call from the north pole itself was answered with a token.
C26_Witness ==
    /\ lastLoc # None
    /\ lastLoc.input.latitude = 900000
    /\ Issues(lastLoc.result)
    /\ lastLoc.result.locationToken \in issued

\* An unknown employee reporting a point with neither coordinate in range
\* was refused for the latitude.
C26_WitnessBoth ==
    /\ lastLoc # None
    /\ lastLoc.input.employeeId = "e9"
    /\ lastLoc.input.latitude = 900001
    /\ lastLoc.input.longitude = 1800001
    /\ lastLoc.result =
        AppError("Invalid latitude. Must be between -90 and 90", 400)
    /\ issued = {}


\* C27: the geo-fence includes its boundary.  isWithinRadius holds of a
\* point iff its computed distance from the centre is at most the radius;
\* a checkEmployeeLocation call from a point whose distance from the office
\* equals the configured radius is answered success = false and issues no
\* token, and one from any greater distance is issued a token.
C27_BoundaryIsInside ==
    [][locChecks' # locChecks =>
        LET input == lastLoc'.input
            result == lastLoc'.result
            employee == FindEmployeeById(employees, input.employeeId)
            tenant == FindTenantById(tenants, employee.tenantId)
            distance == calculateDistance(input.latitude, input.longitude,
                            tenant.latitude, tenant.longitude)
        IN  "success" \in DOMAIN result =>
                /\ isWithinRadius(input.latitude, input.longitude,
                        tenant.latitude, tenant.longitude, distance)
                /\ ~isWithinRadius(input.latitude, input.longitude,
                        tenant.latitude, tenant.longitude, distance - 1)
                /\ distance = AllowedCheckInRadius =>
                        /\ ~result.success
                        /\ ~Issues(result)
                        /\ issued' = issued
                /\ distance > AllowedCheckInRadius =>
                        /\ result.success
                        /\ Issues(result)
                        /\ result.locationToken \in issued'
      ]_vars

\* A call from a point at the radius exactly was denied a token.
C27_Witness ==
    /\ lastLoc # None
    /\ "success" \in DOMAIN lastLoc.result
    /\ ~lastLoc.result.success
    /\ calculateDistance(lastLoc.input.latitude, lastLoc.input.longitude,
            OfficeLat, OfficeLon) = AllowedCheckInRadius
    /\ issued = {}

\* A call from the nearest point beyond the radius was issued a token.
C27_WitnessBeyond ==
    /\ lastLoc # None
    /\ lastLoc.input.latitude = OfficeLat + 10
    /\ Issues(lastLoc.result)
    /\ lastLoc.result.locationToken \in issued


\* C28: a logoutTenant call changes no session row but those whose tenantId
\* and tokenHash both match its arguments, and those it only revokes: every
\* other row, of the same tenant or of another, is in the table as before,
\* and no row is added or removed.  A logout that names a token of another
\* tenant, or a token that has no session, changes nothing and returns
\* normally.
C28_LogoutTouchesOnlyItsSession ==
    [][logouts' # logouts =>
        LET call == lastLogout'
            Named(row) == /\ row.tenantId = call.tenantId
                          /\ row.tokenHash = hashToken(call.refreshToken)
        IN  /\ \A row \in refreshTokens :
                IF Named(row) /\ ~call.fault
                THEN [row EXCEPT !.isRevoked = TRUE] \in refreshTokens'
                ELSE row \in refreshTokens'
            /\ {row.id : row \in refreshTokens'} = {row.id : row \in refreshTokens}
            /\ Cardinality(refreshTokens') = Cardinality(refreshTokens)
            /\ (~call.fault /\ ~\E row \in refreshTokens : Named(row)) =>
                    /\ refreshTokens' = refreshTokens
                    /\ call.result.status = 200
                    /\ call.result.message = "Logged out successfully"]_vars

\* A tenant's logout named the token of another tenant's session: it was
\* answered with success and that session is not revoked.
C28_Witness ==
    /\ lastLogout # None
    /\ ~lastLogout.fault
    /\ lastLogout.result.status = 200
    /\ \E row \in refreshTokens :
        /\ row.tokenHash = hashToken(lastLogout.refreshToken)
        /\ row.tenantId # lastLogout.tenantId
        /\ ~row.isRevoked

\* A tenant with two sessions logged out of one: the other is not revoked.
C28_WitnessOwn ==
    /\ lastLogout # None
    /\ ~lastLogout.fault
    /\ \E row \in refreshTokens, other \in refreshTokens :
        /\ row.tokenHash = hashToken(lastLogout.refreshToken)
        /\ row.tenantId = lastLogout.tenantId
        /\ row.isRevoked
        /\ other.tenantId = row.tenantId
        /\ ~other.isRevoked

\* A logout that named a token without a session was answered with success.
C28_WitnessUnknown ==
    /\ lastLogout # None
    /\ lastLogout.refreshToken = ForgedRefreshToken
    /\ lastLogout.result.status = 200
    /\ refreshTokens # {}
    /\ \A row \in refreshTokens : ~row.isRevoked


\* C29: a registerTenant call that returns a failure leaves the tenants table
\* as it was when the call began: no tenant row of the failed call remains.
\* (Calls one after the other.)
C29_FailedRegistrationLeavesNoTenant ==
    [][\A g \in GReq : (RegisterReturns(g) /\ rg'[g].pc = "failed") =>
            tenants' = rg'[g].before.tenants]_vars

\* A registerTenant call failed at the insert of its refresh session, after
\* the insert of its tenant: the tenant row is in the table, without a
\* session, and a second call with the same input was refused with 409
\* 'Username already exists'.
C29_TenantLeftBehind ==
    \E g \in GReq, h \in GReq :
        /\ rg[g].pc = "failed"
        /\ rg[g].fault
        /\ rg[g].result.status = 500
        /\ rg[g].tenant \in tenants
        /\ ~\E row \in refreshTokens : row.tenantId = rg[g].tenant.id
        /\ rg[h].pc = "failed"
        /\ rg[h].input = rg[g].input
        /\ rg[h].result = AppError("Username already exists", 409)


\* The location proof a check-in presented is one a location check issued,
\* for a tenant that was stored with the plan `issuedUnder`.
RedeemsProofIssuedUnder(c, issuedUnder) ==
    /\ ci[c].input # None
    /\ ci[c].input.locationToken \in issued
    /\ ci[c].tenant # None
    /\ \E row \in SeedTenants :
            /\ row.id = ci[c].tenant.id
            /\ row.id = ci[c].input.locationToken.payload.tenantId
            /\ row.planType = issuedUnder

\* C30: the identity verification of a check-in is chosen by the planType of
\* the tenant row stored when the check-in reads it, whatever the plan was
\* when the location proof was issued.  The row the call goes on with is the
\* stored one; with FREE the call goes to the attendance lookup without
\* asking the oracle, and an Attendance it creates has a null confidence;
\* with PAID the call goes to the oracle, and an Attendance it creates
\* records the similarity of an answer that matched.
C30_PlanReadAtRedemption ==
    [][\A c \in CReq :
        /\ (ci[c].pc = "tenant" /\ ci'[c].pc \notin {"tenant", "failed"}) =>
                LET stored == CHOOSE row \in tenants :
                                    row.id = ci[c].employee.tenantId
                IN  /\ ci'[c].tenant = stored
                    /\ ci'[c].response = None
                    /\ ci'[c].pc = IF stored.planType = "PAID"
                                   THEN "faces" ELSE "find"
        /\ (ci[c].pc = "create" /\ ci'[c].pc = "done") =>
                LET call == ci'[c]
                IN  /\ call.result \in attendances' \ attendances
                    /\ call.tenant.planType = "FREE" =>
                            /\ call.response = None
                            /\ call.result.matchConfidence = None
                    /\ call.tenant.planType = "PAID" =>
                            /\ call.response # None
                            /\ ~call.response.error
                            /\ compareFaces(call.response).isMatch
                            /\ call.result.matchConfidence =
                                [value |-> compareFaces(call.response).similarity]
        /\ (ci[c].pc = "faces" /\ ci'[c].pc = "find") =>
                /\ ~ci'[c].response.error
                /\ compareFaces(ci'[c].response).isMatch
    ]_vars

\* A proof issued while the tenant was PAID was redeemed after updateTenant
\* made the tenant FREE: the Attendance has a null confidence and the oracle
\* was not asked.
C30_Witness ==
    \E c \in CReq :
        /\ RedeemsProofIssuedUnder(c, "PAID")
        /\ ci[c].pc = "done"
        /\ ci[c].tenant.planType = "FREE"
        /\ ci[c].response = None
        /\ ci[c].result \in attendances
        /\ ci[c].result.matchConfidence = None
        /\ lastUpdate # None
        /\ lastUpdate.data.planType = "FREE"

\* A proof issued while the tenant was FREE was redeemed after updateTenant
\* made the tenant PAID: the check-in failed on an oracle answer below the
\* threshold.
C30_WitnessPaidRefused ==
    \E c \in CReq :
        /\ RedeemsProofIssuedUnder(c, "FREE")
        /\ ci[c].pc = "failed"
        /\ ci[c].tenant.planType = "PAID"
        /\ ci[c].response # None
        /\ ~ci[c].response.error
        /\ ~compareFaces(ci[c].response).isMatch
        /\ attendances = {}

\* A proof issued while the tenant was FREE was redeemed after updateTenant
\* made the tenant PAID: the Attendance records the oracle's similarity.
C30_WitnessPaid ==
    \E c \in CReq :
        /\ RedeemsProofIssuedUnder(c, "FREE")
        /\ ci[c].pc = "done"
        /\ ci[c].tenant.planType = "PAID"
        /\ ci[c].response # None
        /\ ci[c].result.matchConfidence # None

=============================================================================
